---------------------------- MODULE Spec2Model ----------------------------
(***************************************************************************)
(* Live Watch panel of cortex-debug: the extension-host tree model         *)
(* (LiveVariableNode), its controller (LiveWatchWebviewProvider) and the   *)
(* webview renderer (LiveWatchView).                                       *)
(*                                                                         *)
(* Node objects live in a heap indexed by the value the static idCounter   *)
(* had when the object was constructed (every constructor call takes a     *)
(* fresh one), so object identity, the aliasing of child arrays in         *)
(* refreshChildren and replies that arrive for detached objects are        *)
(* modelled as the JavaScript runs them.  Strings that the code parses     *)
(* (watch expressions) are sequences of tokens: a token is one character   *)
(* or an identifier.  children = <<>> stands for both `undefined` and `[]`:*)
(* every reader of the field normalises with `?? []`, `|| []` or `?.`.     *)
(***************************************************************************)
EXTENDS Integers, Sequences, FiniteSets, TLC

\* ------------------------------------------------------------------ bounds
\* Largest number of LiveVariableNode objects ever constructed (idCounter).
MaxId == 6
\* Largest number of root watch expressions.
MaxRoots == 2
\* Largest number of refresh/toggle promise chains in flight together.
MaxJobs == 2
\* Largest number of debug sessions started; a session is numbered by its start.
MaxSessions == 2

\* ------------------------------------------------- values of the program
Undef == -1                     \* `undefined` where an object or id is expected
UndefStr == "undefined"         \* `undefined` where a string is expected
NoSession == 0                  \* LiveWatchWebviewProvider.session === undefined
Failed == "<Failed to evaluate>"

\* Property names every `{}` inherits from Object.prototype: oldStateMap[name]
\* is truthy for them although no child of that name was stored.
ProtoKeys == {<<"constructor">>}

VARIABLES
    heap,        \* LiveVariableNode objects: oid -> fields
    idCounter,   \* LiveVariableNode.idCounter
    session,     \* LiveWatchWebviewProvider.session
    timeout,     \* this.timeout: Undef, or the delay the timer was armed with
    timeoutMs,   \* this.timeoutMs
    isStopped,   \* this.isStopped
    pending,     \* adapter requests, timers and input boxes in flight (closures)
    saved,       \* workspaceState[WATCH_LIST_STATE]
    webviewView, \* this.webviewView !== undefined
    posted,      \* the last 'update' message posted to the webview
    nextSession, \* the number the next debug session to start will get
    viewVariables,  \* LiveWatchView.variables
    viewHasSession, \* LiveWatchView.hasSession
    editingNodeId,  \* LiveWatchView.editingNodeId
    dom,            \* the elements under #live-watch-root
    toHost,         \* messages the view posted that the host has not handled
    toView          \* messages the host posted that the view has not handled

hostVars == <<heap, idCounter, session, timeout, timeoutMs, isStopped,
              pending, saved, webviewView, posted, nextSession>>

viewVars == <<viewVariables, viewHasSession, editingNodeId, dom>>

chanVars == <<toHost, toView>>

vars == <<hostVars, viewVars, chanVars>>

\* --------------------------------------------------------------- strings
IsSpace(t) == t = " "

RECURSIVE TrimStart(_)
TrimStart(s) ==
    IF s # <<>> /\ IsSpace(Head(s)) THEN TrimStart(Tail(s)) ELSE s

RECURSIVE TrimEnd(_)
TrimEnd(s) ==
    IF s # <<>> /\ IsSpace(s[Len(s)]) THEN TrimEnd(SubSeq(s, 1, Len(s) - 1)) ELSE s

\* String.prototype.trim
Trim(s) == TrimEnd(TrimStart(s))

\* ------------------------------------------------------ LiveVariableNode
\* new LiveVariableNode(parent, name, expr, value, type, variablesReference)
NewNode(oid, parent, name, expr, value, type, ref) ==
    [ parent |-> parent, name |-> name, expr |-> expr, value |-> value,
      type |-> type, variablesReference |-> ref, session |-> NoSession,
      children |-> <<>>, prevValue |-> "", expanded |-> FALSE, id |-> oid ]

getChildren(h, n) == h[n].children

hasChildrenNodes(h, n) ==
    h[n].variablesReference > 0 \/ Len(h[n].children) > 0

\* isRootChild without the look at the parent's parent
isRootChildOfAny(h, n) == h[n].parent # Undef

isRootChild(h, n) ==
    LET node == h[n].parent IN node # Undef /\ h[node].parent = Undef

\* isValueChanged without the test for an empty previous value
isValueChangedFromAny(h, n) == h[n].prevValue # h[n].value

isValueChanged(h, n) ==
    h[n].prevValue # "" /\ h[n].prevValue # h[n].value

\* findName: the first child of n named str, or Undef
findName(h, n, str) ==
    LET kids == h[n].children
        hits == {i \in 1..Len(kids) : h[kids[i]].name = str}
    IN IF hits = {} THEN Undef
       ELSE kids[CHOOSE i \in hits : \A j \in hits : i <= j]

\* findById: depth-first, this node before its children, first hit wins
RECURSIVE findById(_, _, _)
RECURSIVE findByIdIn(_, _, _, _)
findById(h, n, id) ==
    IF h[n].id = id THEN n ELSE findByIdIn(h, h[n].children, 1, id)
findByIdIn(h, kids, i, id) ==
    IF i > Len(kids) THEN Undef
    ELSE LET found == findById(h, kids[i], id)
         IN IF found # Undef THEN found ELSE findByIdIn(h, kids, i + 1, id)

rename(h, n, nm) ==
    IF isRootChild(h, n)
    THEN [h EXCEPT ![n].name = nm, ![n].expr = nm]
    ELSE h


\* toWebViewNode(depth): the message node of n, and the heap after the call
\* (prevValue := value on every node the message includes).  The 'file'::name
\* prefix of the tooltip is left out: no name of the model starts with a quote.
RECURSIVE toWebViewNode(_, _, _)
RECURSIVE toWebViewNodes(_, _, _, _, _)
toWebViewNode(h, n, depth) ==
    LET changed == isValueChanged(h, n)
        sub == IF h[n].expanded
               THEN toWebViewNodes(h, h[n].children, 1, depth + 1, <<>>)
               ELSE [nodes |-> <<>>, heap |-> h]
        node == [ id |-> h[n].id, name |-> h[n].name, expr |-> h[n].expr,
                  value |-> h[n].value, type |-> h[n].type,
                  hasChildren |-> hasChildrenNodes(h, n),
                  expanded |-> h[n].expanded, changed |-> changed,
                  isRoot |-> isRootChild(h, n), depth |-> depth,
                  children |-> sub.nodes ]
    IN [node |-> node, heap |-> [sub.heap EXCEPT ![n].prevValue = h[n].value]]
toWebViewNodes(h, kids, i, depth, acc) ==
    IF i > Len(kids) THEN [nodes |-> acc, heap |-> h]
    ELSE LET r == toWebViewNode(h, kids[i], depth)
         IN toWebViewNodes(r.heap, kids, i + 1, depth, Append(acc, r.node))

\* addChild: a new object under `this`; the constructor takes idCounter++
addChild(h, ctr, this, name, expr, value, type, reference) ==
    LET child == NewNode(ctr, this, name, IF expr = <<>> THEN name ELSE expr,
                         value, type, reference)
    IN [ heap |-> [(h @@ (ctr :> child)) EXCEPT ![this].children = Append(@, ctr)],
         idCounter |-> ctr + 1 ]

RemoveAt(s, i) == SubSeq(s, 1, i - 1) \o SubSeq(s, i + 1, Len(s))

\* index of the first child of `this` whose name is that of node, or 0
FirstNamed(h, this, node) ==
    LET kids == h[this].children
        hits == {i \in 1..Len(kids) : h[kids[i]].name = h[node].name}
    IN IF hits = {} THEN 0 ELSE CHOOSE i \in hits : \A j \in hits : i <= j

\* removeChild(node): [ok, heap]
removeChild(h, this, node) ==
    LET ix == FirstNamed(h, this, node) IN
    IF node = Undef \/ ~isRootChild(h, node) \/ ix = 0
    THEN [ok |-> FALSE, heap |-> h]
    ELSE [ok |-> TRUE, heap |-> [h EXCEPT ![this].children = RemoveAt(@, ix)]]

\* moveUpChild without the isRootChild test
moveUpChildOfAny(h, this, node) ==
    LET ix == FirstNamed(h, this, node)
        kids == h[this].children IN
    IF node = Undef \/ ix = 0
    THEN [ok |-> FALSE, heap |-> h]
    ELSE [ok |-> TRUE,
          heap |-> [h EXCEPT ![this].children =
                      IF ix > 1
                      THEN [kids EXCEPT ![ix] = kids[ix - 1], ![ix - 1] = kids[ix]]
                      ELSE Append(Tail(kids), Head(kids))]]

\* moveUpChild(node): swap with the predecessor; the first goes to the end
moveUpChild(h, this, node) ==
    LET ix == FirstNamed(h, this, node)
        kids == h[this].children IN
    IF node = Undef \/ ~isRootChild(h, node) \/ ix = 0
    THEN [ok |-> FALSE, heap |-> h]
    ELSE [ok |-> TRUE,
          heap |-> [h EXCEPT ![this].children =
                      IF ix > 1
                      THEN [kids EXCEPT ![ix] = kids[ix - 1], ![ix - 1] = kids[ix]]
                      ELSE Append(Tail(kids), Head(kids))]]

\* moveDownChild that leaves the last where it is
moveDownChildToLast(h, this, node) ==
    LET ix == FirstNamed(h, this, node)
        kids == h[this].children
        lastIx == Len(kids) IN
    IF node = Undef \/ ~isRootChild(h, node) \/ ix = 0
    THEN [ok |-> FALSE, heap |-> h]
    ELSE [ok |-> TRUE,
          heap |-> [h EXCEPT ![this].children =
                      IF ix # lastIx
                      THEN [kids EXCEPT ![ix] = kids[ix + 1], ![ix + 1] = kids[ix]]
                      ELSE kids]]

\* moveDownChild(node): swap with the successor; the last goes to the front
moveDownChild(h, this, node) ==
    LET ix == FirstNamed(h, this, node)
        kids == h[this].children
        lastIx == Len(kids) IN
    IF node = Undef \/ ~isRootChild(h, node) \/ ix = 0
    THEN [ok |-> FALSE, heap |-> h]
    ELSE [ok |-> TRUE,
          heap |-> [h EXCEPT ![this].children =
                      IF ix # lastIx
                      THEN [kids EXCEPT ![ix] = kids[ix + 1], ![ix + 1] = kids[ix]]
                      ELSE <<kids[lastIx]>> \o SubSeq(kids, 1, lastIx - 1)]]

\* the objects reachable from n through children (n included)
RECURSIVE Descendants(_, _)
Descendants(h, n) ==
    {n} \cup UNION {Descendants(h, h[n].children[i]) : i \in 1..Len(h[n].children)}

\* reset that does not descend below the children of n
resetShallow(h, n, valuesToo) ==
    LET below == {n} \cup {h[n].children[i] : i \in 1..Len(h[n].children)} IN
    [o \in DOMAIN h |->
        IF o \notin below THEN h[o]
        ELSE IF valuesToo
             THEN [h[o] EXCEPT !.session = NoSession, !.value = "", !.type = "",
                               !.prevValue = "", !.variablesReference = 0]
             ELSE [h[o] EXCEPT !.session = NoSession]]

\* reset(valuesToo) on n and everything below it
reset(h, n, valuesToo) ==
    LET below == Descendants(h, n) IN
    [o \in DOMAIN h |->
        IF o \notin below THEN h[o]
        ELSE IF valuesToo
             THEN [h[o] EXCEPT !.session = NoSession, !.value = "", !.type = "",
                               !.prevValue = "", !.variablesReference = 0]
             ELSE [h[o] EXCEPT !.session = NoSession]]

\* addNewExpr(expr) on `this`: [ok, heap, idCounter]
\* addNewExpr without the look for a child of the same expression
addNewExprAgain(h, ctr, this, expr) ==
    IF h[this].parent # Undef
    THEN [ok |-> FALSE, heap |-> h, idCounter |-> ctr]
    ELSE [ok |-> TRUE] @@ addChild(h, ctr, this, expr, expr, "", "", 0)

addNewExpr(h, ctr, this, expr) ==
    LET kids == h[this].children IN
    IF h[this].parent # Undef \/ \E i \in 1..Len(kids) : h[kids[i]].expr = expr
    THEN [ok |-> FALSE, heap |-> h, idCounter |-> ctr]
    ELSE [ok |-> TRUE] @@ addChild(h, ctr, this, expr, expr, "", "", 0)

\* pvtSerialize / serialize: the NodeState of n
\* pvtSerialize that descends into expanded nodes only
RECURSIVE pvtSerializeExpanded(_, _)
pvtSerializeExpanded(h, n) ==
    LET open == h[n].expanded \/ h[n].parent = Undef IN
    [ name |-> h[n].name, expr |-> h[n].expr, expanded |-> open,
      children |-> IF open
                   THEN [i \in 1..Len(h[n].children) |->
                            pvtSerializeExpanded(h, h[n].children[i])]
                   ELSE <<>> ]

RECURSIVE pvtSerialize(_, _)
pvtSerialize(h, n) ==
    [ name |-> h[n].name, expr |-> h[n].expr,
      expanded |-> (h[n].expanded \/ h[n].parent = Undef),
      children |-> [i \in 1..Len(h[n].children) |-> pvtSerialize(h, h[n].children[i])] ]

serialize(h, n) == pvtSerialize(h, n)

\* deSerialize(state) into `this`: children of state from position i on
RECURSIVE deSerialize(_, _, _, _, _)
deSerialize(h, ctr, this, kids, i) ==
    IF i > Len(kids) THEN [heap |-> h, idCounter |-> ctr]
    ELSE LET child == kids[i]
             item == [NewNode(ctr, this, child.name, child.expr, "", "", 0)
                        EXCEPT !.expanded = child.expanded]
             h1 == [(h @@ (ctr :> item)) EXCEPT ![this].children = Append(@, ctr)]
             r == deSerialize(h1, ctr + 1, ctr, child.children, 1)
         IN deSerialize(r.heap, r.idCounter, this, kids, i + 1)


\* ------------------------------------------- LiveWatchWebviewProvider
Root == 0                       \* this.variables, the first object constructed

EmptyState == [name |-> <<>>, expr |-> <<>>, expanded |-> TRUE, children |-> <<>>]

NoFx == [saves |-> 0, posts |-> 0, refreshes |-> 0, timers |-> 0]

\* The provider and the tree as one value, so that a handler is the
\* composition of the calls it makes.  blocked: a bound of the model was hit.
World ==
    [ heap |-> heap, idCounter |-> idCounter, session |-> session,
      timeout |-> timeout, timeoutMs |-> timeoutMs, isStopped |-> isStopped,
      pending |-> pending, saved |-> saved, webviewView |-> webviewView,
      posted |-> posted, fx |-> NoFx, blocked |-> FALSE ]

saveState(w) ==
    [w EXCEPT !.saved = serialize(w.heap, Root), !.fx.saves = @ + 1]

updateWebview(w) ==
    IF ~w.webviewView THEN w
    ELSE LET r == toWebViewNodes(w.heap, getChildren(w.heap, Root), 1, 0, <<>>)
         IN [w EXCEPT !.heap = r.heap,
                      !.posted = [variables |-> r.nodes,
                                  hasSession |-> (w.session # NoSession)],
                      !.fx.posts = @ + 1]

\* isSameSession without the comparison of the session ids
isSameSessionAny(w, s) ==
    s # NoSession /\ w.session # NoSession

isSameSession(w, s) ==
    s # NoSession /\ w.session # NoSession /\ s = w.session

killTimer(w) == [w EXCEPT !.timeout = Undef]

startTimer(w, subtract) ==
    [killTimer(w) EXCEPT !.timeout = w.timeoutMs - subtract, !.fx.timers = @ + 1]

\* the closure `restart` without the test of isStopped
restartAlways(w, elapsed, restartTimer) ==
    IF restartTimer /\ w.session # NoSession
    THEN startTimer(w, IF elapsed < 0 \/ elapsed > w.timeoutMs THEN 0 ELSE elapsed)
    ELSE w

\* the closure `restart` that subtracts whatever time has elapsed
restartUnchecked(w, elapsed, restartTimer) ==
    IF ~w.isStopped /\ restartTimer /\ w.session # NoSession
    THEN startTimer(w, elapsed)
    ELSE w

\* the closure `restart` of refresh
restart(w, elapsed, restartTimer) ==
    IF ~w.isStopped /\ restartTimer /\ w.session # NoSession
    THEN startTimer(w, IF elapsed < 0 \/ elapsed > w.timeoutMs THEN 0 ELSE elapsed)
    ELSE w

\* A promise chain (job): its number, what runs when it settles, and the
\* restartTimer argument its refresh was called with.
JobIds == 1..MaxJobs
FreeJobs(w) == JobIds \ {r.job.id : r \in w.pending}
NoJob == [id |-> 0, then |-> "none", restart |-> FALSE]

Request(kind, node, s, job, old) ==
    [kind |-> kind, node |-> node, sess |-> s, job |-> job, old |-> old]

\* refreshChildren without the test of this.expanded
refreshChildrenCollapsed(w, n, s, j) ==
    LET me == w.heap[n] IN
    IF s = NoSession \/ me.session # s THEN w
    ELSE IF me.variablesReference > 0
    THEN [w EXCEPT !.pending = @ \cup {Request("vars", n, me.session, j, <<>>)}]
    ELSE w

\* refreshChildren(session, resolve) on n, inside promise chain j
refreshChildren(w, n, s, j) ==
    LET me == w.heap[n] IN
    IF s = NoSession \/ me.session # s THEN w
    ELSE IF me.expanded /\ me.variablesReference > 0
    THEN LET oldStateMap ==
                 [i \in 1..Len(me.children) |->
                    LET child == w.heap[me.children[i]] IN
                    [ name |-> child.name, id |-> child.id,
                      expanded |-> child.expanded, value |-> child.value,
                      children |-> child.children ]]
         IN [w EXCEPT !.pending = @ \cup {Request("vars", n, me.session, j, oldStateMap)}]
    ELSE w

\* LiveVariableNode.refresh(session) on n, inside promise chain j
RECURSIVE nodeRefresh(_, _, _, _)
RECURSIVE nodeRefreshAll(_, _, _, _, _)
nodeRefresh(w, n, s, j) ==
    LET w1 == [w EXCEPT !.heap[n].session = s] IN
    IF w1.heap[n].expr # <<>>
    THEN [w1 EXCEPT !.pending = @ \cup {Request("eval", n, s, j, <<>>)}]
    ELSE IF w1.heap[n].parent = Undef
    THEN nodeRefreshAll(w1, w1.heap[n].children, 1, s, j)
    ELSE refreshChildren(w1, n, s, j)
nodeRefreshAll(w, kids, i, s, j) ==
    IF i > Len(kids) THEN w
    ELSE nodeRefreshAll(nodeRefresh(w, kids[i], s, j), kids, i + 1, s, j)

\* LiveWatchWebviewProvider.refresh(session, restartTimer)
refresh(w, s, restartTimer) ==
    LET w1 == [w EXCEPT !.fx.refreshes = @ + 1] IN
    IF s # NoSession /\ isSameSession(w1, s)
    THEN IF Len(getChildren(w1.heap, Root)) = 0
         THEN restart(w1, 0, restartTimer)
         ELSE IF FreeJobs(w1) = {} THEN [w1 EXCEPT !.blocked = TRUE]
         ELSE LET j == [id |-> CHOOSE k \in FreeJobs(w1) : \A m \in FreeJobs(w1) : k <= m,
                        then |-> "refresh", restart |-> restartTimer]
              IN [w1 EXCEPT !.pending = @ \cup {Request("cache", Root, s, j, <<>>)}]
    ELSE updateWebview(w1)

\* What runs once the last request of promise chain j has settled:
\* refresh's finally (updateWebview, restart), or toggleNode's then.
settle(w, j, elapsed) ==
    IF \E r \in w.pending : r.job.id = j.id THEN w
    ELSE IF j.then = "refresh" THEN restart(updateWebview(w), elapsed, j.restart)
    ELSE IF j.then = "toggle" THEN updateWebview(saveState(w))
    ELSE w


\* oldStateMap[name]: the entry stored last under that name; for a name no
\* child had, what `{}` inherits under it (a function or Object.prototype,
\* whose id, expanded, value and children are undefined); else nothing.
oldStateOf(old, name) ==
    LET hits == {i \in 1..Len(old) : old[i].name = name} IN
    IF hits # {}
    THEN [found |-> TRUE] @@ old[CHOOSE i \in hits : \A k \in hits : k <= i]
    ELSE IF name \in ProtoKeys
    THEN [found |-> TRUE, name |-> name, id |-> Undef, expanded |-> FALSE,
          value |-> UndefStr, children |-> <<>>]
    ELSE [found |-> FALSE, name |-> name, id |-> Undef, expanded |-> FALSE,
          value |-> "", children |-> <<>>]

\* the take-over without the test of the new variablesReference
takeOverExpanded(ch, oldState, ref) ==
    [ch EXCEPT !.id = oldState.id,
               !.expanded = oldState.expanded,
               !.prevValue = oldState.value,
               !.children = oldState.children]

\* setId, and the other fields refreshChildren takes over from oldState
takeOver(ch, oldState, ref) ==
    [ch EXCEPT !.id = oldState.id,
               !.expanded = oldState.expanded /\ ref > 0,
               !.prevValue = oldState.value,
               !.children = oldState.children]

\* the loop of refreshChildren over result.variables, from position i on
RECURSIVE buildChildren(_, _, _, _, _, _, _)
buildChildren(h, ctr, this, variables, i, old, s) ==
    IF i > Len(variables) THEN [heap |-> h, idCounter |-> ctr]
    ELSE LET variable == variables[i]
             ch0 == NewNode(ctr, this, variable.name,
                            IF variable.evaluateName # <<>> THEN variable.evaluateName
                            ELSE variable.name,
                            variable.value, variable.type, variable.variablesReference)
             oldState == oldStateOf(old, ch0.name)
             ch1 == IF oldState.found
                    THEN takeOver(ch0, oldState, ch0.variablesReference)
                    ELSE ch0
             ch == [ch1 EXCEPT !.session = s]
             h1 == [(h @@ (ctr :> ch)) EXCEPT ![this].children = Append(@, ctr)]
         IN buildChildren(h1, ctr + 1, this, variables, i + 1, old, s)

\* refreshChildren on every expanded child of the list
RECURSIVE refreshExpanded(_, _, _, _, _)
refreshExpanded(w, kids, i, s, j) ==
    IF i > Len(kids) THEN w
    ELSE refreshExpanded(
            IF w.heap[kids[i]].expanded THEN refreshChildren(w, kids[i], s, j) ELSE w,
            kids, i + 1, s, j)

\* the reply to liveCacheRefresh; a rejection has no handler
onCacheReply(w, r, ok, elapsed) ==
    LET w1 == [w EXCEPT !.pending = @ \ {r}] IN
    IF ok THEN settle(nodeRefresh(w1, Root, r.sess, r.job), r.job, elapsed)
    ELSE w1

\* the reply to liveEvaluate of LiveVariableNode.refresh
onEvalReply(w, r, res, elapsed) ==
    LET w1 == [w EXCEPT !.pending = @ \ {r}]
        n == r.node
        me == w1.heap[n]
        w2 == IF res.kind = "ok"
              THEN LET upd == [me EXCEPT !.value = res.value, !.type = res.type,
                                         !.variablesReference = res.variablesReference,
                                         !.children = IF me.type # res.type THEN <<>> ELSE @]
                   IN refreshChildren([w1 EXCEPT !.heap[n] = upd], n, r.sess, r.job)
              ELSE IF res.kind = "none"
              THEN [w1 EXCEPT !.heap[n].value = Failed, !.heap[n].children = <<>>]
              ELSE w1
    IN settle(w2, r.job, elapsed)

\* onVarsReply without the rejection handler `() => { resolve(); }`
onVarsReplyUnhandled(w, r, res, elapsed) ==
    LET w1 == [w EXCEPT !.pending = @ \ {r}]
        n == r.node
        w2 == IF res.kind # "ok" THEN w1
              ELSE IF res.variables = <<>>
              THEN [w1 EXCEPT !.heap[n].children = <<>>]
              ELSE IF w1.idCounter + Len(res.variables) > MaxId
              THEN [w1 EXCEPT !.blocked = TRUE]
              ELSE LET b == buildChildren([w1.heap EXCEPT ![n].children = <<>>],
                                          w1.idCounter, n, res.variables, 1, r.old, r.sess)
                   IN [w1 EXCEPT !.heap = b.heap, !.idCounter = b.idCounter]
        w3 == IF res.kind # "ok" THEN w2
              ELSE refreshExpanded(w2, w2.heap[n].children, 1, r.sess, r.job)
    IN IF res.kind = "reject" THEN w3 ELSE settle(w3, r.job, elapsed)

\* the reply to liveVariables of refreshChildren
onVarsReply(w, r, res, elapsed) ==
    LET w1 == [w EXCEPT !.pending = @ \ {r}]
        n == r.node
        w2 == IF res.kind # "ok" THEN w1
              ELSE IF res.variables = <<>>
              THEN [w1 EXCEPT !.heap[n].children = <<>>]
              ELSE IF w1.idCounter + Len(res.variables) > MaxId
              THEN [w1 EXCEPT !.blocked = TRUE]
              ELSE LET b == buildChildren([w1.heap EXCEPT ![n].children = <<>>],
                                          w1.idCounter, n, res.variables, 1, r.old, r.sess)
                   IN [w1 EXCEPT !.heap = b.heap, !.idCounter = b.idCounter]
        w3 == IF res.kind # "ok" THEN w2
              ELSE refreshExpanded(w2, w2.heap[n].children, 1, r.sess, r.job)
    IN settle(w3, r.job, elapsed)


\* expr.replace(/,[hxbod]$/, '')
FormatChars == {"h", "x", "b", "o", "d"}
StripFormat(e) ==
    IF Len(e) >= 2 /\ e[Len(e) - 1] = "," /\ e[Len(e)] \in FormatChars
    THEN SubSeq(e, 1, Len(e) - 2)
    ELSE e

handleInlineRename(w, nodeId, newName) ==
    LET node == findById(w.heap, Root, nodeId)
        nm == Trim(newName) IN
    IF node = Undef \/ ~isRootChild(w.heap, node) THEN w
    ELSE IF nm = <<>> \/ nm = w.heap[node].name THEN w
    ELSE IF findName(w.heap, Root, nm) # Undef THEN w
    ELSE refresh(saveState([w EXCEPT !.heap = rename(w.heap, node, nm)]),
                 w.session, FALSE)

handleUpdateFormat(w, nodeId, format) ==
    LET node == findById(w.heap, Root, nodeId) IN
    IF node = Undef \/ ~isRootChild(w.heap, node) THEN w
    ELSE LET stripped == StripFormat(w.heap[node].expr)
             expr == IF format # <<>> THEN stripped \o <<",">> \o format ELSE stripped
         IN IF expr = w.heap[node].expr THEN w
            ELSE IF findName(w.heap, Root, expr) # Undef THEN w
            ELSE refresh(saveState([w EXCEPT !.heap = rename(w.heap, node, expr)]),
                         w.session, FALSE)

removeWatchExpr(w, node) ==
    LET r == removeChild(w.heap, Root, node) IN
    IF r.ok THEN updateWebview(saveState([w EXCEPT !.heap = r.heap])) ELSE w

\* editNode up to showInputBox: the input box holds the node.  The window
\* shows one input box: opening it dismisses the one showing, whose promise
\* resolves to undefined, which editNode's then ignores.
editNode(w, node) ==
    IF ~isRootChild(w.heap, node) THEN w
    ELSE [w EXCEPT !.pending = {q \in @ : q.kind # "input"}
                                \cup {Request("input", node, NoSession, NoJob, <<>>)}]

\* editNode's then: result is the text entered
onInputBox(w, r, result) ==
    LET w1 == [w EXCEPT !.pending = @ \ {r}]
        node == r.node
        res == Trim(result) IN
    IF res # <<>> /\ res # w1.heap[node].name
    THEN IF findName(w1.heap, Root, res) # Undef THEN w1
         ELSE refresh(saveState([w1 EXCEPT !.heap = rename(w1.heap, node, res)]),
                      w1.session, FALSE)
    ELSE w1

moveUpNode(w, node) ==
    LET parent == w.heap[node].parent
        r == moveUpChild(w.heap, parent, node) IN
    IF parent # Undef /\ r.ok
    THEN updateWebview(saveState([w EXCEPT !.heap = r.heap]))
    ELSE w

moveDownNode(w, node) ==
    LET parent == w.heap[node].parent
        r == moveDownChild(w.heap, parent, node) IN
    IF parent # Undef /\ r.ok
    THEN updateWebview(saveState([w EXCEPT !.heap = r.heap]))
    ELSE w

handleAction(w, action, nodeId) ==
    LET node == findById(w.heap, Root, nodeId) IN
    IF node = Undef THEN w
    ELSE CASE action = "remove" -> removeWatchExpr(w, node)
           [] action = "edit" -> editNode(w, node)
           [] action = "move-up" -> moveUpNode(w, node)
           [] action = "move-down" -> moveDownNode(w, node)
           [] OTHER -> w

\* expandChildren whose promise resolves only through a reply
expandChildrenFetched(w, node, s) ==
    IF FreeJobs(w) = {} THEN [w EXCEPT !.blocked = TRUE]
    ELSE LET j == [id |-> CHOOSE k \in FreeJobs(w) : \A m \in FreeJobs(w) : k <= m,
                   then |-> "toggle", restart |-> FALSE]
             w1 == [w EXCEPT !.heap[node].expanded = TRUE, !.heap[node].session = s]
         IN refreshChildren(w1, node, s, j)

\* LiveVariableNode.expandChildren(session) and the then of toggleNode
expandChildren(w, node, s) ==
    IF FreeJobs(w) = {} THEN [w EXCEPT !.blocked = TRUE]
    ELSE LET j == [id |-> CHOOSE k \in FreeJobs(w) : \A m \in FreeJobs(w) : k <= m,
                   then |-> "toggle", restart |-> FALSE]
             w1 == [w EXCEPT !.heap[node].expanded = TRUE, !.heap[node].session = s]
         IN settle(refreshChildren(w1, node, s, j), j, 0)

toggleNode(w, nodeId) ==
    LET node == findById(w.heap, Root, nodeId) IN
    IF node = Undef THEN w
    ELSE IF w.heap[node].expanded
    THEN updateWebview(saveState([w EXCEPT !.heap[node].expanded = FALSE]))
    ELSE IF w.session # NoSession
    THEN expandChildren(w, node, w.session)
    ELSE updateWebview(saveState([w EXCEPT !.heap[node].expanded = TRUE]))

addWatchExpr(w, expression) ==
    LET expr == Trim(expression)
        r == addNewExpr(w.heap, w.idCounter, Root, expr) IN
    IF expr # <<>> /\ r.ok
    THEN IF w.idCounter >= MaxId \/ Len(getChildren(w.heap, Root)) >= MaxRoots
         THEN [w EXCEPT !.blocked = TRUE]
         ELSE refresh(saveState([w EXCEPT !.heap = r.heap, !.idCounter = r.idCounter]),
                      w.session, FALSE)
    ELSE w

Max(a, b) == IF a >= b THEN a ELSE b
Min(a, b) == IF a <= b THEN a ELSE b

\* debugSessionStarted without the test for a session already active
debugSessionStartedOver(w, s, liveWatch) ==
    IF ~liveWatch.enabled
    THEN IF w.session = NoSession THEN updateWebview(w) ELSE w
    ELSE LET given == IF liveWatch.samplesPerSecond = Undef THEN 4
                      ELSE liveWatch.samplesPerSecond
             samplesPerSecond == Max(1, Min(20, given))
         IN startTimer([w EXCEPT !.session = s, !.isStopped = TRUE,
                                 !.heap = reset(w.heap, Root, TRUE),
                                 !.timeoutMs = 1000 \div samplesPerSecond], 0)

\* liveWatch: [enabled, samplesPerSecond], samplesPerSecond Undef when not given
debugSessionStarted(w, s, liveWatch) ==
    IF ~liveWatch.enabled
    THEN IF w.session = NoSession THEN updateWebview(w) ELSE w
    ELSE IF w.session # NoSession THEN w
    ELSE LET given == IF liveWatch.samplesPerSecond = Undef THEN 4
                      ELSE liveWatch.samplesPerSecond
             samplesPerSecond == Max(1, Min(20, given))
         IN startTimer([w EXCEPT !.session = s, !.isStopped = TRUE,
                                 !.heap = reset(w.heap, Root, TRUE),
                                 !.timeoutMs = 1000 \div samplesPerSecond], 0)

debugSessionTerminated(w, s) ==
    IF isSameSession(w, s)
    THEN LET w1 == saveState(updateWebview(
                      [killTimer([w EXCEPT !.isStopped = TRUE]) EXCEPT !.session = NoSession]))
         IN [w1 EXCEPT !.pending = @ \cup {Request("reset", Undef, NoSession, NoJob, <<>>)}]
    ELSE w

\* the delayed reset with reset(false): the session bindings only
onResetTimerBindings(w, r) ==
    [w EXCEPT !.pending = @ \ {r}, !.heap = reset(w.heap, Root, FALSE)]

\* the setTimeout(..., 100) of debugSessionTerminated
onResetTimer(w, r) ==
    [w EXCEPT !.pending = @ \ {r}, !.heap = reset(w.heap, Root, TRUE)]

debugStopped(w, s) ==
    IF isSameSession(w, s)
    THEN [killTimer([w EXCEPT !.isStopped = TRUE])
            EXCEPT !.pending = @ \cup {Request("stopped", Undef, NoSession, NoJob, <<>>)}]
    ELSE w

\* the setTimeout(..., 250) of debugStopped
onStoppedTimer(w, r) ==
    LET w1 == [w EXCEPT !.pending = @ \ {r}] IN
    IF w1.timeout = Undef THEN refresh(w1, w1.session, FALSE) ELSE w1

debugContinued(w, s) ==
    IF isSameSession(w, s) THEN startTimer([w EXCEPT !.isStopped = FALSE], 0) ELSE w

\* the setTimeout callback of startTimer
onTimer(w) ==
    LET w1 == [w EXCEPT !.timeout = Undef] IN
    IF w1.session # NoSession THEN refresh(w1, w1.session, TRUE) ELSE w1

resolveWebviewView(w) == updateWebview([w EXCEPT !.webviewView = TRUE])


\* ------------------------------------------------------- LiveWatchView
\* The webview script.  A message node is the record toWebViewNode builds
\* (children <<>> for `undefined`).  The DOM under #live-watch-root is a record:
\* the .tree-item-container elements in document order, the hint message and
\* whether the .add-expression-container is present.  Selection and the
\* context menu are not modelled.
NullId == -2                    \* editingNodeId === null
AddExpressionId == -3           \* editingNodeId === 'add-expression'

\* `if (this.editingNodeId)`
Truthy(id) == id # NullId /\ id # Undef

NoViewFx == [renders |-> 0, patches |-> 0, sent |-> <<>>, stored |-> <<>>]

\* The view as one value; fx counts the render() and updateVariableValues()
\* calls of a handler and lists the messages it posts to the host and the
\* states it hands to vscode.setState.
View ==
    [ variables |-> viewVariables, hasSession |-> viewHasSession,
      editingNodeId |-> editingNodeId, dom |-> dom, fx |-> NoViewFx ]

EmptyDom == [items |-> <<>>, hint |-> "", adding |-> FALSE]

NoContainer == [present |-> FALSE, expanded |-> FALSE, placeholder |-> FALSE, items |-> <<>>]

postMessage(v, message) == [v EXCEPT !.fx.sent = Append(@, message)]

\* the type-specific class of a value: the values of the model are numbers,
\* booleans or the failure text; none starts with a quote
TypeClasses(value) ==
    IF value \in {"1", "2"} THEN {"number"}
    ELSE IF value \in {"true", "false"} THEN {"boolean"}
    ELSE IF value = Failed THEN {"error"}
    ELSE {}

\* textContent and classes of the .value element of a node
ValueText(node) == IF node.value = "" THEN "not available" ELSE node.value

ValueClasses(node) ==
    IF node.value = "" THEN {"not-available"}
    ELSE (IF node.changed THEN {"changed"} ELSE {}) \cup TypeClasses(node.value)

\* isEditableVariable (common/expression-utils): a plain identifier
isEditableVariable(expr) == Len(expr) = 1 /\ ~IsSpace(expr[1])

canEditValue(node, hasSess) ==
    /\ hasSess
    /\ node.value # ""
    /\ ~node.hasChildren
    /\ (~node.isRoot \/ isEditableVariable(node.expr))

\* renderNode: the .tree-item-container of a node.  node is the message node
\* the element's event handlers close over.
RECURSIVE renderNode(_, _)
renderNode(node, hasSess) ==
    LET formatted == node.isRoot /\ StripFormat(node.name) # node.name IN
    [ id |-> node.id,
      node |-> [node EXCEPT !.children = <<>>],
      indent |-> node.depth,
      toggle |-> IF node.hasChildren
                 THEN (IF node.expanded THEN {"expanded"} ELSE {"collapsed"})
                 ELSE {"no-children"},
      name |-> IF formatted THEN StripFormat(node.name) ELSE node.name,
      format |-> IF formatted THEN SubSeq(node.name, Len(node.name) - 1, Len(node.name))
                 ELSE <<>>,
      value |-> ValueText(node),
      classes |-> ValueClasses(node)
                  \cup (IF canEditValue(node, hasSess) THEN {"editable"} ELSE {}),
      valueEdit |-> canEditValue(node, hasSess),
      title |-> node.type,
      actions |-> node.isRoot,
      editing |-> "",
      children |-> IF Len(node.children) > 0
                   THEN [ present |-> TRUE, expanded |-> node.expanded,
                          placeholder |-> FALSE,
                          items |-> [i \in 1..Len(node.children) |->
                                        renderNode(node.children[i], hasSess)] ]
                   ELSE NoContainer ]

render(v) ==
    LET shown ==
            IF Len(v.variables) = 0
            THEN [items |-> <<>>, hint |-> "empty", adding |-> FALSE]
            ELSE [ items |-> [i \in 1..Len(v.variables) |->
                                 renderNode(v.variables[i], v.hasSession)],
                   hint |-> IF ~v.hasSession THEN "session" ELSE "",
                   adding |-> FALSE ]
    IN [v EXCEPT !.dom = shown, !.fx.renders = @ + 1]

\* compareNodes without the comparison of `expanded`
RECURSIVE compareNodesButExpanded(_, _)
compareNodesButExpanded(oldNodes, newNodes) ==
    IF Len(oldNodes) # Len(newNodes) THEN TRUE
    ELSE \E i \in 1..Len(oldNodes) :
            LET oldNode == oldNodes[i]
                newNode == newNodes[i] IN
            \/ oldNode.id # newNode.id
            \/ oldNode.name # newNode.name
            \/ oldNode.expr # newNode.expr
            \/ oldNode.hasChildren # newNode.hasChildren
            \/ oldNode.depth # newNode.depth
            \/ compareNodesButExpanded(oldNode.children, newNode.children)

\* compareNodes: TRUE at the first difference in document order
RECURSIVE compareNodes(_, _)
compareNodes(oldNodes, newNodes) ==
    IF Len(oldNodes) # Len(newNodes) THEN TRUE
    ELSE \E i \in 1..Len(oldNodes) :
            LET oldNode == oldNodes[i]
                newNode == newNodes[i] IN
            \/ oldNode.id # newNode.id
            \/ oldNode.name # newNode.name
            \/ oldNode.expr # newNode.expr
            \/ oldNode.hasChildren # newNode.hasChildren
            \/ oldNode.expanded # newNode.expanded
            \/ oldNode.depth # newNode.depth
            \/ compareNodes(oldNode.children, newNode.children)

isStructureChanged(oldVars, newVars) ==
    IF Len(oldVars) # Len(newVars) THEN TRUE ELSE compareNodes(oldVars, newVars)

\* buildValueMap: the nodes in document order; a later node of the same id
\* replaces an earlier one
RECURSIVE Preorder(_)
Preorder(nodes) ==
    IF nodes = <<>> THEN <<>>
    ELSE <<nodes[1]>> \o Preorder(nodes[1].children) \o Preorder(Tail(nodes))

buildValueMap(nodes) ==
    LET flat == Preorder(nodes)
        last(id) == CHOOSE i \in 1..Len(flat) :
                        /\ flat[i].id = id
                        /\ \A j \in 1..Len(flat) : flat[j].id = id => j <= i
    IN [id \in {flat[i].id : i \in 1..Len(flat)} |-> flat[last(id)]]

\* updateValuesInDOM: every .tree-item-container whose data-id is in the map
\* gets the text and classes of its .value element replaced.  An undefined id
\* is the attribute "undefined", which no key of the map equals.
RECURSIVE updateValuesInDOM(_, _)
updateValuesInDOM(items, newValueMap) ==
    [i \in 1..Len(items) |->
        LET item == items[i]
            kids == [item EXCEPT !.children.items = updateValuesInDOM(@, newValueMap)]
        IN IF item.id # Undef /\ item.id \in DOMAIN newValueMap
           THEN [kids EXCEPT !.value = ValueText(newValueMap[item.id]),
                             !.classes = ValueClasses(newValueMap[item.id])]
           ELSE kids]

updateVariableValues(v, newVariables) ==
    [v EXCEPT !.dom.items = updateValuesInDOM(@, buildValueMap(newVariables)),
              !.fx.patches = @ + 1]

\* handleMessage, case 'update', without the test of editingNodeId
onUpdateWhileEditing(v, message) ==
    LET oldVariables == v.variables
        v1 == [v EXCEPT !.variables = message.variables,
                        !.hasSession = message.hasSession,
                        !.fx.stored = Append(@, [variables |-> message.variables,
                                                 hasSession |-> message.hasSession])]
    IN IF isStructureChanged(oldVariables, v1.variables) THEN render(v1)
       ELSE updateVariableValues(v1, v1.variables)

\* handleMessage, case 'update'
onUpdate(v, message) ==
    LET oldVariables == v.variables
        v1 == [v EXCEPT !.variables = message.variables,
                        !.hasSession = message.hasSession,
                        !.fx.stored = Append(@, [variables |-> message.variables,
                                                 hasSession |-> message.hasSession])]
    IN IF Truthy(v1.editingNodeId) THEN v1
       ELSE IF isStructureChanged(oldVariables, v1.variables) THEN render(v1)
       ELSE updateVariableValues(v1, v1.variables)

\* the elements of the DOM by position: the paths of all items, the item at
\* a path, and the items with the item at a path replaced
RECURSIVE ItemPaths(_)
ItemPaths(items) ==
    UNION { {<<i>>} \cup {<<i>> \o p : p \in ItemPaths(items[i].children.items)} :
            i \in 1..Len(items) }

RECURSIVE ItemAt(_, _)
ItemAt(items, path) ==
    IF Len(path) = 1 THEN items[path[1]]
    ELSE ItemAt(items[path[1]].children.items, Tail(path))

RECURSIVE WithItem(_, _, _)
WithItem(items, path, item) ==
    IF Len(path) = 1 THEN [items EXCEPT ![path[1]] = item]
    ELSE [items EXCEPT ![path[1]].children.items = WithItem(@, Tail(path), item)]

\* the inline editors open in the DOM
Editors(d) == {p \in ItemPaths(d.items) : ItemAt(d.items, p).editing # ""}

\* finishEdit of startInlineEdit for the editor at path; input is the text
\* of the field.  Without a post the tree is rendered again.
finishEdit(v, path, save, input) ==
    LET item == ItemAt(v.dom.items, path)
        node == item.node
        newValue == Trim(input)
        v1 == [v EXCEPT !.editingNodeId = NullId,
                        !.dom.items = WithItem(@, path, [item EXCEPT !.editing = ""])]
    IN IF v.editingNodeId # node.id THEN v
       ELSE IF save /\ newValue # <<>> /\ newValue # node.name
       THEN postMessage(v1, [type |-> "inline-rename", nodeId |-> node.id,
                             newName |-> newValue])
       ELSE render(v1)

\* finishEdit of startInlineValueEdit; the value of a node is one token of
\* the text field, the empty value none
finishValueEdit(v, path, save, input) ==
    LET item == ItemAt(v.dom.items, path)
        node == item.node
        newValue == Trim(input)
        v1 == [v EXCEPT !.editingNodeId = NullId,
                        !.dom.items = WithItem(@, path, [item EXCEPT !.editing = ""])]
    IN IF v.editingNodeId # node.id THEN v
       ELSE IF save /\ newValue # (IF node.value = "" THEN <<>> ELSE <<node.value>>)
       THEN postMessage(v1, [type |-> "inline-set-value", nodeId |-> node.id,
                             newValue |-> newValue])
       ELSE render(v1)

\* the blur listener of the inline editor at path
onBlur(v, path, input) ==
    IF ItemAt(v.dom.items, path).editing = "name"
    THEN finishEdit(v, path, TRUE, input)
    ELSE finishValueEdit(v, path, TRUE, input)

startInlineEdit(v, path) ==
    LET item == ItemAt(v.dom.items, path) IN
    IF Truthy(v.editingNodeId) THEN v
    ELSE [v EXCEPT !.editingNodeId = item.node.id,
                   !.dom.items = WithItem(@, path, [item EXCEPT !.editing = "name"])]

startInlineValueEdit(v, path) ==
    LET item == ItemAt(v.dom.items, path) IN
    IF Truthy(v.editingNodeId) THEN v
    ELSE [v EXCEPT !.editingNodeId = item.node.id,
                   !.dom.items = WithItem(@, path, [item EXCEPT !.editing = "value"])]

\* showAddExpressionInput.  input.focus() takes the focus from an open
\* inline editor, whose blur listener runs before focus() returns; input is
\* the text that editor holds.
showAddExpressionInput(v, input) ==
    IF v.dom.adding THEN v
    ELSE LET v1 == [v EXCEPT !.dom.adding = TRUE]
             open == Editors(v1.dom)
             v2 == IF open = {} THEN v1
                   ELSE onBlur(v1, CHOOSE p \in open : TRUE, input)
         IN [v2 EXCEPT !.editingNodeId = AddExpressionId]

\* handleMessage, case 'add-expression'
onAddExpression(v, input) ==
    showAddExpressionInput(
        IF Len(v.variables) = 0 THEN [v EXCEPT !.dom = EmptyDom] ELSE v, input)

\* cleanup of the add-expression input
cleanup(v) ==
    LET v1 == [v EXCEPT !.dom.adding = FALSE] IN
    IF v1.editingNodeId = AddExpressionId
    THEN render([v1 EXCEPT !.editingNodeId = NullId])
    ELSE v1

\* commit (Enter) and the blur listener of the add-expression input
commit(v, input) ==
    LET value == Trim(input) IN
    cleanup(IF value # <<>>
            THEN postMessage(v, [type |-> "add-expression", expression |-> value])
            ELSE v)

\* findNodeById: <<node>> for the first node of that id in document order
RECURSIVE findNodeById(_, _, _)
findNodeById(nodes, i, id) ==
    IF i > Len(nodes) THEN <<>>
    ELSE IF nodes[i].id = id THEN <<nodes[i]>>
    ELSE LET found == findNodeById(nodes[i].children, 1, id)
         IN IF found # <<>> THEN found ELSE findNodeById(nodes, i + 1, id)

\* querySelector(`[data-id="${id}"]`): the path of the first such item
RECURSIVE FindItem(_, _, _)
FindItem(items, i, id) ==
    IF i > Len(items) THEN <<>>
    ELSE IF items[i].id = id THEN <<i>>
    ELSE LET p == FindItem(items[i].children.items, 1, id)
         IN IF p # <<>> THEN <<i>> \o p ELSE FindItem(items, i + 1, id)

\* toggleNode of the view: the optimistic update of the DOM, then the post
viewToggleNode(v, id) ==
    LET path == FindItem(v.dom.items, 1, id)
        found == findNodeById(v.variables, 1, id)
        v1 == IF path = <<>> \/ found = <<>> THEN v
              ELSE LET item == ItemAt(v.dom.items, path)
                       node == found[1]
                       new == IF node.expanded
                              THEN [item EXCEPT
                                      !.toggle = (@ \ {"expanded"}) \cup {"collapsed"},
                                      !.children.expanded = FALSE]
                              ELSE [item EXCEPT
                                      !.toggle = (@ \ {"collapsed"}) \cup {"expanded", "loading"},
                                      !.children =
                                          IF ~@.present /\ node.hasChildren
                                          THEN [present |-> TRUE, expanded |-> TRUE,
                                                placeholder |-> TRUE, items |-> <<>>]
                                          ELSE IF @.present THEN [@ EXCEPT !.expanded = TRUE]
                                          ELSE @]
                   IN [v EXCEPT !.dom.items = WithItem(@, path, new)]
    IN postMessage(v1, [type |-> "toggle", nodeId |-> id])

\* A handler of the view ran to completion.
ViewCommit(v) ==
    /\ viewVariables' = v.variables
    /\ viewHasSession' = v.hasSession
    /\ editingNodeId' = v.editingNodeId
    /\ dom' = v.dom

\* constructor with no stored webview state: nothing is rendered
ViewConstructed ==
    /\ viewVariables = <<>>
    /\ viewHasSession = FALSE
    /\ editingNodeId = NullId
    /\ dom = EmptyDom


\* ------------------------------------------------ the JavaScript runtime
\* Garbage collection: an object stays while the tree, a closure in flight
\* or a captured child array reaches it.  An object only reached through
\* parent pointers keeps its parent field alone (isRootChild reads no other).
RECURSIVE Ancestors(_, _)
Ancestors(h, n) ==
    IF h[n].parent = Undef THEN {} ELSE {h[n].parent} \cup Ancestors(h, h[n].parent)

Held(w) ==
    {Root} \cup {r.node : r \in {q \in w.pending : q.node # Undef}}
           \cup UNION {UNION {{r.old[i].children[k] : k \in 1..Len(r.old[i].children)}
                              : i \in 1..Len(r.old)} : r \in w.pending}

Collect(w) ==
    LET h == w.heap
        live == UNION {Descendants(h, n) : n \in Held(w)}
        kept == live \cup UNION {Ancestors(h, n) : n \in live}
    IN [o \in kept |->
          IF o \in live THEN h[o]
          ELSE [NewNode(o, h[o].parent, <<>>, <<>>, "", "", 0) EXCEPT !.id = Undef]]

\* What a message's nodeId names, by the tree alone: the root object, a
\* direct child of the root, a node further down, or nothing.
TargetKind(nodeId) ==
    LET node == findById(heap, Root, nodeId)
        kids == heap[Root].children IN
    IF node = Undef THEN "none"
    ELSE IF node = Root THEN "root"
    ELSE IF \E i \in 1..Len(kids) : kids[i] = node THEN "direct"
    ELSE "nested"

\* A handler ran to completion: its effects become the next state.
Effects(w) ==
    /\ ~w.blocked
    /\ heap' = Collect(w)
    /\ idCounter' = w.idCounter
    /\ session' = w.session
    /\ timeout' = w.timeout
    /\ timeoutMs' = w.timeoutMs
    /\ isStopped' = w.isStopped
    /\ pending' = w.pending
    /\ saved' = w.saved
    /\ webviewView' = w.webviewView
    /\ posted' = w.posted
    /\ UNCHANGED viewVars

\* ... with no message of the view taken and the messages to the view not
\* followed further
Commit(w) == Effects(w) /\ UNCHANGED chanVars

\* the ids a message from the webview can name: those of the tree, and
\* Undef (an id no node has, unless a node's id is undefined)
TreeIds == {heap[n].id : n \in Descendants(heap, Root)} \cup {Undef}

NoMessage == [variables |-> <<>>, hasSession |-> FALSE]

\* constructor: new LiveVariableNode(undefined, '', ''), then restoreState
Constructed(state) ==
    LET r == deSerialize(Root :> NewNode(Root, Undef, <<>>, <<>>, "", "", 0),
                         Root + 1, Root, state.children, 1)
    IN [ heap |-> r.heap, idCounter |-> r.idCounter, session |-> NoSession,
         timeout |-> Undef, timeoutMs |-> 250, isStopped |-> TRUE,
         pending |-> {}, saved |-> state, webviewView |-> FALSE,
         posted |-> NoMessage, fx |-> NoFx, blocked |-> FALSE ]

StartIn(w) ==
    /\ heap = w.heap
    /\ idCounter = w.idCounter
    /\ session = w.session
    /\ timeout = w.timeout
    /\ timeoutMs = w.timeoutMs
    /\ isStopped = w.isStopped
    /\ pending = w.pending
    /\ saved = w.saved
    /\ webviewView = w.webviewView
    /\ posted = w.posted
    /\ nextSession = 1
    /\ ViewConstructed
    /\ toHost = <<>> /\ toView = <<>>

\* the provider as constructed from a saved state
InitWith(state) == StartIn(Constructed(state))

\* the provider once the view has been shown (resolveWebviewView)
InitShown(state) == StartIn(resolveWebviewView(Constructed(state)))

\* ---------------------------------------------------------------- actions
ResolveWebviewView ==
    /\ ~webviewView
    /\ Commit(resolveWebviewView(World))
    /\ UNCHANGED nextSession

MsgInit ==
    /\ webviewView
    /\ Commit(updateWebview(World))
    /\ UNCHANGED nextSession

MsgToggle(nodeId) ==
    /\ Commit(toggleNode(World, nodeId))
    /\ UNCHANGED nextSession

MsgAction(action, nodeId) ==
    /\ Commit(handleAction(World, action, nodeId))
    /\ UNCHANGED nextSession

MsgInlineRename(nodeId, newName) ==
    /\ Commit(handleInlineRename(World, nodeId, newName))
    /\ UNCHANGED nextSession

MsgUpdateFormat(nodeId, format) ==
    /\ Commit(handleUpdateFormat(World, nodeId, format))
    /\ UNCHANGED nextSession

MsgAddExpression(expression) ==
    /\ Commit(addWatchExpr(World, expression))
    /\ UNCHANGED nextSession

InputBox(r, result) ==
    /\ r \in pending /\ r.kind = "input"
    /\ Commit(onInputBox(World, r, result))
    /\ UNCHANGED nextSession

DebugSessionStarted(liveWatch) ==
    /\ nextSession <= MaxSessions
    /\ nextSession' = nextSession + 1
    /\ Commit(debugSessionStarted(World, nextSession, liveWatch))

DebugSessionTerminated(s) ==
    /\ Commit(debugSessionTerminated(World, s))
    /\ UNCHANGED nextSession

DebugStopped(s) ==
    /\ Commit(debugStopped(World, s))
    /\ UNCHANGED nextSession

DebugContinued(s) ==
    /\ Commit(debugContinued(World, s))
    /\ UNCHANGED nextSession

Timer ==
    /\ timeout # Undef
    /\ Commit(onTimer(World))
    /\ UNCHANGED nextSession

StoppedTimer(r) ==
    /\ r \in pending /\ r.kind = "stopped"
    /\ Commit(onStoppedTimer(World, r))
    /\ UNCHANGED nextSession

ResetTimer(r) ==
    /\ r \in pending /\ r.kind = "reset"
    /\ Commit(onResetTimer(World, r))
    /\ UNCHANGED nextSession

CacheReply(r, ok, elapsed) ==
    /\ r \in pending /\ r.kind = "cache"
    /\ Commit(onCacheReply(World, r, ok, elapsed))
    /\ UNCHANGED nextSession

EvalReply(r, res, elapsed) ==
    /\ r \in pending /\ r.kind = "eval"
    /\ Commit(onEvalReply(World, r, res, elapsed))
    /\ UNCHANGED nextSession

VarsReply(r, res, elapsed) ==
    /\ r \in pending /\ r.kind = "vars"
    /\ Commit(onVarsReply(World, r, res, elapsed))
    /\ UNCHANGED nextSession


\* ----------------------------------------------------------------- inputs
Leaf(name, expanded) ==
    [name |-> name, expr |-> name, expanded |-> expanded, children |-> <<>>]

\* what the user types: an expression with a leading blank, nothing, a name in use
Exprs == { <<" ", "z">> }
Names == Exprs \cup { <<>>, <<"x">> }

Formats == { <<>>, <<"h">> }

EvalOk(value, type, ref) ==
    [kind |-> "ok", value |-> value, type |-> type, variablesReference |-> ref]

Variable(name, value, type, ref) ==
    [name |-> name, evaluateName |-> <<>>, value |-> value, type |-> type,
     variablesReference |-> ref]

Evaluated(variable, evaluateName) == [variable EXCEPT !.evaluateName = evaluateName]

VarsOk(variables) == [kind |-> "ok", variables |-> variables]

Started == 1..(nextSession - 1)

\* ----------------------------------------------------------- specification
\* Editing the list of watch expressions while no debug session runs.
SavedEdit ==
    { [EmptyState EXCEPT !.children =
          << [Leaf(<<"x">>, TRUE) EXCEPT !.children = <<Leaf(<<"a">>, FALSE)>>],
             Leaf(<<"y">>, FALSE) >>] }

InitEdit == \E state \in SavedEdit : InitShown(state)

NextEdit ==
    \/ \E id \in TreeIds : MsgToggle(id)
    \/ \E a \in {"remove", "edit", "move-up", "move-down"}, id \in TreeIds : MsgAction(a, id)
    \/ \E id \in TreeIds, nm \in Exprs : MsgInlineRename(id, nm)
    \/ \E id \in TreeIds, f \in Formats : MsgUpdateFormat(id, f)
    \/ \E e \in Exprs : MsgAddExpression(e)
    \/ \E r \in pending, nm \in Exprs \cup {<<>>} : InputBox(r, nm)

SpecEdit == InitEdit /\ [][NextEdit]_vars


\* Refreshing an expanded tree in one session: one poll, toggles and the
\* adapter's replies, with up to MaxJobs promise chains overlapping.
SavedRefresh ==
    { [EmptyState EXCEPT !.children =
          << [Leaf(<<"x">>, TRUE) EXCEPT !.children = <<Leaf(<<"a">>, TRUE)>>] >>] }

RefreshEval == { EvalOk("1", "S", 1) }

\* replies to liveVariables for a root watch expression
RefreshVars ==
    LET a1 == Evaluated(Variable(<<"a">>, "1", "S", 1), <<"x", ".", "a">>)
        a0 == Evaluated(Variable(<<"a">>, "2", "int", 0), <<"x", ".", "a">>)
        b1 == Evaluated(Variable(<<"b">>, "1", "S", 1), <<"x", ".", "b">>)
        c0 == Variable(<<"constructor">>, "1", "int", 0)
    IN { [kind |-> "reject", variables |-> <<>>], VarsOk(<<>>), VarsOk(<<a1>>),
         VarsOk(<<a0>>), VarsOk(<<b1, a1>>), VarsOk(<<a1, a1>>), VarsOk(<<c0>>) }

\* replies to liveVariables for a node further down
RefreshLeafVars ==
    { VarsOk(<<>>), VarsOk(<<Variable(<<"a">>, "2", "int", 0)>>) }

RefreshConfigs == { [enabled |-> TRUE, samplesPerSecond |-> Undef] }

InitRefresh == \E state \in SavedRefresh : InitShown(state)

NextRefresh ==
    \/ \E id \in TreeIds : MsgToggle(id)
    \/ \E lw \in RefreshConfigs : session = NoSession /\ DebugSessionStarted(lw)
    \/ Timer
    \/ \E r \in pending : CacheReply(r, TRUE, 0)
    \/ \E r \in pending, res \in RefreshEval : EvalReply(r, res, 0)
    \/ \E r \in pending, res \in RefreshVars \cup RefreshLeafVars :
          /\ r.kind = "vars"
          /\ res \in (IF heap[r.node].parent = Root THEN RefreshVars ELSE RefreshLeafVars)
          /\ VarsReply(r, res, 0)

SpecRefresh == InitRefresh /\ [][NextRefresh]_vars

\* Refreshes that complete: polls of a running session and toggles of the
\* nodes below the watch expression of a restored tree, with an adapter that answers with a result, with an empty
\* result or with a rejection.
SettleEval ==
    { EvalOk("1", "S", 1),
      [kind |-> "none", value |-> "", type |-> "", variablesReference |-> 0],
      [kind |-> "reject", value |-> "", type |-> "", variablesReference |-> 0] }

SettleVars ==
    { VarsOk(<<Evaluated(Variable(<<"a">>, "1", "S", 1), <<"x", ".", "a">>)>>),
      VarsOk(<<>>), [kind |-> "reject", variables |-> <<>>] }

\* a request of promise chain j settles
Settles(j) ==
    \E r \in pending :
        /\ r.job.id = j
        /\ \/ CacheReply(r, TRUE, 0)
           \/ \E res \in SettleEval : EvalReply(r, res, 0)
           \/ \E res \in SettleVars : VarsReply(r, res, 0)

NextSettle ==
    \/ \E id \in TreeIds : TargetKind(id) = "nested" /\ MsgToggle(id)
    \/ \E lw \in RefreshConfigs : session = NoSession /\ DebugSessionStarted(lw)
    \/ \E s \in Started : DebugContinued(s)
    \/ Timer
    \/ \E j \in JobIds : Settles(j)

SpecSettle == InitRefresh /\ [][NextSettle]_vars


\* Polling through the life of debug sessions: start, continue, stop and
\* termination, the three timers, and an adapter whose requests succeed or
\* fail, on a list that is empty until the user adds a watch expression.
SavedPoll == { EmptyState }

EvalResults ==
    { EvalOk("1", "int", 0),
      [kind |-> "none", value |-> "", type |-> "", variablesReference |-> 0],
      [kind |-> "reject", value |-> "", type |-> "", variablesReference |-> 0] }

\* Date.now() - start of a refresh, in ms: within the period, and beyond it
Elapsed == {100, 300}

LiveWatchConfigs ==
    { [enabled |-> FALSE, samplesPerSecond |-> Undef],
      [enabled |-> TRUE, samplesPerSecond |-> Undef],
      [enabled |-> TRUE, samplesPerSecond |-> 20] }

InitPoll == \E state \in SavedPoll : InitShown(state)

NextPoll ==
    \/ MsgInit
    \/ \E e \in Exprs : MsgAddExpression(e)
    \/ \E lw \in LiveWatchConfigs : DebugSessionStarted(lw)
    \/ \E s \in Started : DebugSessionTerminated(s)
    \/ \E s \in Started : DebugStopped(s)
    \/ \E s \in Started : DebugContinued(s)
    \/ Timer
    \/ \E r \in pending : StoppedTimer(r)
    \/ \E r \in pending : ResetTimer(r)
    \/ \E r \in pending, ok \in BOOLEAN, e \in Elapsed : CacheReply(r, ok, e)
    \/ \E r \in pending, res \in EvalResults, e \in Elapsed : EvalReply(r, res, e)

SpecPoll == InitPoll /\ [][NextPoll]_vars

\* The life of two debug sessions on a restored tree with a nested expanded
\* child: start, continue, termination and its delayed reset, polls and the
\* adapter's replies in any order.
SessionVars ==
    LET a1 == Evaluated(Variable(<<"a">>, "1", "S", 1), <<"x", ".", "a">>)
        a0 == Evaluated(Variable(<<"a">>, "2", "int", 0), <<"x", ".", "a">>)
    IN { VarsOk(<<a1>>), VarsOk(<<a0>>) }

\* the highest sample rate: a poll every 50 ms, within the 100 ms of the
\* delayed reset
SessionConfigs == { [enabled |-> TRUE, samplesPerSecond |-> 20] }

InitSession == \E state \in SavedRefresh : InitShown(state)

NextSession ==
    \/ \E lw \in SessionConfigs : DebugSessionStarted(lw)
    \/ \E s \in Started : DebugSessionTerminated(s)
    \/ \E s \in Started : DebugContinued(s)
    \/ Timer
    \/ \E r \in pending : ResetTimer(r)
    \/ \E r \in pending : CacheReply(r, TRUE, 0)
    \/ \E r \in pending, res \in RefreshEval : EvalReply(r, res, 0)
    \/ \E r \in pending, res \in SessionVars : VarsReply(r, res, 0)

SpecSession == InitSession /\ [][NextSession]_vars


\* Reordering a list of four watch expressions, the first with a child, with
\* no debug session: moves, removals and toggles.
SavedMove ==
    { [EmptyState EXCEPT !.children =
          << [Leaf(<<"x">>, TRUE) EXCEPT !.children = <<Leaf(<<"a">>, FALSE)>>],
             Leaf(<<"y">>, FALSE), Leaf(<<"z">>, FALSE), Leaf(<<"u">>, FALSE) >>] }

InitMove == \E state \in SavedMove : InitShown(state)

NextMove ==
    \/ \E a \in {"move-up", "move-down", "remove"}, id \in TreeIds : MsgAction(a, id)
    \/ \E id \in TreeIds : MsgToggle(id)

SpecMove == InitMove /\ [][NextMove]_vars


\* Choosing formats from the context menu, with no debug session, on lists
\* the user typed: plain expressions, one with a format specifier, one that
\* ends in two.
MenuFormats == { <<>>, <<"h">>, <<"d">>, <<"b">>, <<"o">> }

SavedFormat ==
    { [EmptyState EXCEPT !.children = <<Leaf(<<"x">>, FALSE), Leaf(<<"y">>, FALSE)>>],
      [EmptyState EXCEPT !.children = <<Leaf(<<"x", ",", "h">>, FALSE), Leaf(<<"x">>, FALSE)>>],
      [EmptyState EXCEPT !.children =
          <<Leaf(<<"v", ",", "x", ",", "h">>, FALSE), Leaf(<<"y">>, TRUE)>>] }

InitFormat == \E state \in SavedFormat : InitShown(state)

NextFormat ==
    \/ \E id \in TreeIds, f \in MenuFormats : MsgUpdateFormat(id, f)
    \/ \E id \in TreeIds : MsgToggle(id)

SpecFormat == InitFormat /\ [][NextFormat]_vars


\* The host and the webview together, the messages between them queued:
\* toggle clicks of the user, the host's toggleNode, one debug session with
\* its first refresh, the adapter's replies and the view's 'update' handling.
MaxQueue == 2

SavedToggle == { [EmptyState EXCEPT !.children = <<Leaf(<<"x">>, FALSE)>>] }

\* replies to liveVariables: one leaf, or a rejection
ToggleVars ==
    { VarsOk(<<Evaluated(Variable(<<"a">>, "2", "int", 0), <<"x", ".", "a">>)>>),
      [kind |-> "reject", variables |-> <<>>] }

\* a handler of the host ran to completion; the 'update' it posted, if any,
\* is on its way to the view
Deliver(w) ==
    /\ Effects(w)
    /\ Len(toView) + w.fx.posts <= MaxQueue
    /\ toView' = IF w.fx.posts > 0 THEN Append(toView, w.posted) ELSE toView
    /\ UNCHANGED toHost

\* the user clicks the toggle of the item at path
Clicked(path) ==
    /\ Len(toHost) < MaxQueue
    /\ ItemAt(dom.items, path).node.hasChildren
    /\ LET v == viewToggleNode(View, ItemAt(dom.items, path).node.id) IN
          ViewCommit(v) /\ toHost' = toHost \o v.fx.sent
    /\ UNCHANGED <<hostVars, toView>>

\* the host's handleMessage for the oldest message of the view
HostReceives ==
    /\ toHost # <<>>
    /\ Head(toHost).type = "toggle"
    /\ Effects(toggleNode(World, Head(toHost).nodeId))
    /\ Len(toView) < MaxQueue
    /\ LET w == toggleNode(World, Head(toHost).nodeId) IN
          toView' = IF w.fx.posts > 0 THEN Append(toView, w.posted) ELSE toView
    /\ toHost' = Tail(toHost)
    /\ UNCHANGED nextSession

\* the view's handleMessage for the oldest message of the host
ViewReceives ==
    /\ toView # <<>>
    /\ ViewCommit(onUpdate(View, Head(toView)))
    /\ toView' = Tail(toView)
    /\ UNCHANGED <<hostVars, toHost>>

SessionStarts(liveWatch) ==
    /\ nextSession = 1
    /\ nextSession' = 2
    /\ Deliver(debugSessionStarted(World, nextSession, liveWatch))

TimerFires ==
    /\ timeout # Undef
    /\ Deliver(onTimer(World))
    /\ UNCHANGED nextSession

Replies(r) ==
    /\ \/ r.kind = "cache" /\ Deliver(onCacheReply(World, r, TRUE, 0))
       \/ r.kind = "eval" /\ \E res \in RefreshEval : Deliver(onEvalReply(World, r, res, 0))
       \/ r.kind = "vars" /\ \E res \in ToggleVars : Deliver(onVarsReply(World, r, res, 0))
    /\ UNCHANGED nextSession

InitToggle == \E state \in SavedToggle : InitShown(state)

NextToggle ==
    \/ \E path \in ItemPaths(dom.items) : Clicked(path)
    \/ HostReceives
    \/ ViewReceives
    \/ \E lw \in RefreshConfigs : SessionStarts(lw)
    \/ TimerFires
    \/ \E r \in pending : Replies(r)

SpecToggle == InitToggle /\ [][NextToggle]_vars


\* The webview alone: 'update' and 'add-expression' messages of the host in
\* any order, and the user toggling, renaming, editing values and adding.
WebViewNode(id, name, expr, value, type, hasChildren, expanded, changed, isRoot, depth, children) ==
    [ id |-> id, name |-> name, expr |-> expr, value |-> value, type |-> type,
      hasChildren |-> hasChildren, expanded |-> expanded, changed |-> changed,
      isRoot |-> isRoot, depth |-> depth, children |-> children ]

\* messages updateWebview posts: watch expression x (node_1) before a session,
\* evaluated as a structure, expanded with its child a fetched, re-fetched
\* with another value or as another object, renamed with a format, evaluated
\* as a number, alone or followed by y (node_2)
Updates ==
    LET root(name, value, type, hasChildren, expanded, children) ==
            WebViewNode(1, name, name, value, type, hasChildren, expanded, FALSE,
                        TRUE, 0, children)
        a(id, value, changed) ==
            WebViewNode(id, <<"a">>, <<"x", ".", "a">>, value, "int", FALSE, FALSE,
                        changed, FALSE, 1, <<>>)
        x == <<"x">>
        y == WebViewNode(2, <<"y">>, <<"y">>, "", "", FALSE, FALSE, FALSE, TRUE, 0, <<>>)
        update(nodes, hasSess) == [variables |-> nodes, hasSession |-> hasSess]
    IN { update(<<>>, FALSE),
         update(<<root(x, "", "", FALSE, FALSE, <<>>)>>, FALSE),
         update(<<root(x, "1", "S", TRUE, FALSE, <<>>)>>, TRUE),
         update(<<root(x, "1", "S", TRUE, TRUE, <<>>)>>, TRUE),
         update(<<root(x, "2", "S", TRUE, TRUE, <<>>)>>, FALSE),
         update(<<root(x, "1", "S", TRUE, TRUE, <<a(3, "1", FALSE)>>)>>, TRUE),
         update(<<root(x, "1", "S", TRUE, TRUE, <<a(3, "2", TRUE)>>)>>, TRUE),
         update(<<root(x, "1", "S", TRUE, TRUE, <<a(3, "2", TRUE)>>)>>, FALSE),
         update(<<root(x, "1", "S", TRUE, TRUE, <<a(4, "2", FALSE)>>)>>, TRUE),
         update(<<root(<<"x", ",", "h">>, "1", "S", TRUE, FALSE, <<>>)>>, TRUE),
         update(<<root(x, "1", "int", FALSE, FALSE, <<>>)>>, TRUE),
         update(<<root(x, "2", "int", FALSE, FALSE, <<>>), y>>, TRUE) }

\* what the user may have typed into an input when it is committed
Typed == { <<"x">>, <<"1">>, <<" ", "z">>, <<>> }

\* a click outside an open input reaches its blur listener first
NoInputOpen == Editors(dom) = {} /\ ~dom.adding

ViewUpdate(message) ==
    /\ ViewCommit(onUpdate(View, message))
    /\ UNCHANGED <<hostVars, chanVars>>

ViewAddExpression(input) ==
    /\ ViewCommit(onAddExpression(View, input))
    /\ UNCHANGED <<hostVars, chanVars>>

AddCommitted(input) ==
    /\ dom.adding
    /\ ViewCommit(commit(View, input))
    /\ UNCHANGED <<hostVars, chanVars>>

AddEscaped ==
    /\ dom.adding
    /\ ViewCommit(cleanup(View))
    /\ UNCHANGED <<hostVars, chanVars>>

NameDblClicked(path) ==
    /\ NoInputOpen
    /\ ItemAt(dom.items, path).actions
    /\ ViewCommit(startInlineEdit(View, path))
    /\ UNCHANGED <<hostVars, chanVars>>

ValueDblClicked(path) ==
    /\ NoInputOpen
    /\ ItemAt(dom.items, path).valueEdit
    /\ ViewCommit(startInlineValueEdit(View, path))
    /\ UNCHANGED <<hostVars, chanVars>>

ToggleClicked(path) ==
    /\ NoInputOpen
    /\ ItemAt(dom.items, path).node.hasChildren
    /\ ViewCommit(viewToggleNode(View, ItemAt(dom.items, path).node.id))
    /\ UNCHANGED <<hostVars, chanVars>>

EditCommitted(path, input) ==
    /\ ViewCommit(onBlur(View, path, input))
    /\ UNCHANGED <<hostVars, chanVars>>

EditEscaped(path) ==
    /\ ViewCommit(IF ItemAt(dom.items, path).editing = "name"
                  THEN finishEdit(View, path, FALSE, <<>>)
                  ELSE finishValueEdit(View, path, FALSE, <<>>))
    /\ UNCHANGED <<hostVars, chanVars>>

InitView == InitShown(EmptyState)

NextView ==
    \/ \E message \in Updates : ViewUpdate(message)
    \/ \E input \in Typed : ViewAddExpression(input)
    \/ \E input \in Typed : AddCommitted(input)
    \/ AddEscaped
    \/ \E path \in ItemPaths(dom.items) : NameDblClicked(path)
    \/ \E path \in ItemPaths(dom.items) : ValueDblClicked(path)
    \/ \E path \in ItemPaths(dom.items) : ToggleClicked(path)
    \/ \E path \in Editors(dom), input \in Typed : EditCommitted(path, input)
    \/ \E path \in Editors(dom) : EditEscaped(path)

SpecView == InitView /\ [][NextView]_vars


\* ------------------------------------------------------------- properties
\* C1: in every reachable state, an 'inline-rename' message with any new
\* name, an 'update-format' message with any format and an 'edit' action
\* whose nodeId names a node that is not a direct child of the root (a node
\* further down, or the root object) return with the provider as it was: no
\* name or expression changed, saveState and refresh not called, no input
\* box opened.
C1_OnlyRootsRenamed ==
    \A id \in TreeIds :
        TargetKind(id) \in {"nested", "root"} =>
            /\ \A nm \in Names : handleInlineRename(World, id, nm) = World
            /\ \A f \in Formats : handleUpdateFormat(World, id, f) = World
            /\ handleAction(World, "edit", id) = World

\* a tree with a node further down and a root expression z (renamed or
\* added): the rename message does nothing on the nested node and renames
\* a root expression
C1_Witness ==
    \E id, id2 \in TreeIds, nm \in Names :
        /\ TargetKind(id) = "nested" /\ TargetKind(id2) = "direct"
        /\ findName(heap, Root, <<"z">>) # Undef
        /\ handleInlineRename(World, id, nm) = World
        /\ handleInlineRename(World, id2, <<"w">>).fx.saves = 1

\* C2: in every reachable state, a 'remove', 'move-up' or 'move-down' action
\* whose nodeId names no direct child of the root (a node further down, the
\* root object, or no node) returns with the provider as it was: the tree
\* unchanged, saveState and updateWebview not called.
C2_OnlyRootsRemovedOrMoved ==
    \A id \in TreeIds :
        TargetKind(id) # "direct" =>
            \A a \in {"remove", "move-up", "move-down"} :
                handleAction(World, a, id) = World

\* two root expressions in swapped order with a node further down: move-up
\* acts on a root expression and not on the nested node
C2_Witness ==
    \E id, id2 \in TreeIds :
        /\ TargetKind(id) = "nested" /\ TargetKind(id2) = "direct"
        /\ Len(heap[Root].children) = 2
        /\ heap[heap[Root].children[1]].name = <<"y">>
        /\ handleAction(World, "move-up", id) = World
        /\ handleAction(World, "move-up", id2).fx.saves = 1
        /\ handleAction(World, "remove", id2).fx.posts = 1

\* C3: whenever a live-watch session is active and the target runs (the last
\* of debugContinued / debugStopped / termination for it was debugContinued),
\* polling is alive: the poll timer is armed, or a timer-triggered refresh of
\* the session is in flight whose completion arms it, whatever the adapter
\* answered to the requests of earlier refreshes.
C3_PollingNeverStalls ==
    (session # NoSession /\ ~isStopped) =>
        \/ timeout # Undef
        \/ \E r \in pending :
              r.kind \in {"cache", "eval", "vars"} /\ r.job.restart /\ r.sess = session

\* C4: in every reachable state, debugStopped and debugSessionTerminated for
\* the active session leave the poll timer cancelled; and while the target is
\* stopped or no session is active (isStopped), nothing but debugContinued for
\* the active session or the start of a session calls startTimer: no reply
\* to a request in flight, no timer callback, no added expression, and no
\* debugContinued of another session.
C4_StoppedTimerStaysCancelled ==
    /\ \A s \in Started :
          isSameSession(World, s) =>
              /\ debugStopped(World, s).timeout = Undef
              /\ debugSessionTerminated(World, s).timeout = Undef
    /\ isStopped =>
          /\ \A r \in pending, e \in Elapsed :
                /\ r.kind = "cache" =>
                      \A ok \in BOOLEAN : onCacheReply(World, r, ok, e).fx.timers = 0
                /\ r.kind = "eval" =>
                      \A res \in EvalResults : onEvalReply(World, r, res, e).fx.timers = 0
                /\ r.kind = "stopped" => onStoppedTimer(World, r).fx.timers = 0
                /\ r.kind = "reset" => onResetTimer(World, r).fx.timers = 0
          /\ timeout # Undef => onTimer(World).fx.timers = 0
          /\ \A e \in Exprs : addWatchExpr(World, e).fx.timers = 0
          /\ \A s \in Started :
                ~isSameSession(World, s) => debugContinued(World, s).fx.timers = 0

\* the target stopped while a timer-triggered refresh was in flight: the
\* timer is cancelled, debugStopped's own delayed refresh is still to come
C4_Witness ==
    /\ isStopped /\ session # NoSession /\ timeout = Undef
    /\ \E r \in pending : r.kind = "stopped"
    /\ \E r \in pending : r.kind \in {"cache", "eval"} /\ r.job.restart /\ r.sess = session

\* the liveVariables requests in flight and the replies that build children
VarsPending == {r \in pending : r.kind = "vars"}
Fetched == {res \in RefreshVars \cup RefreshLeafVars :
               res.kind = "ok" /\ res.variables # <<>>}

\* the reply fits below the bound on constructed objects
Fits(res) == idCounter + Len(res.variables) <= MaxId

\* C5: for every liveVariables request in flight and every reply with
\* variables, once the reply is handled the i-th child of the node is the
\* object built for the i-th variable; if the node had a child of that name
\* when the refresh was requested, the new child's id is the id of such a
\* prior child, and otherwise it is the id generated for the new object.
C5_IdsFollowNames ==
    \A r \in VarsPending, res \in Fetched :
        Fits(res) =>
            LET after == onVarsReply(World, r, res, 0).heap
                kids == after[r.node].children
            IN /\ Len(kids) = Len(res.variables)
               /\ \A i \in 1..Len(kids) :
                     LET ch == after[kids[i]]
                         prior == {k \in 1..Len(r.old) : r.old[k].name = ch.name}
                     IN /\ kids[i] = idCounter + i - 1
                        /\ ch.name = res.variables[i].name
                        /\ IF prior # {}
                           THEN ch.id \in {r.old[k].id : k \in prior}
                           ELSE ch.id = kids[i]

\* C6 as stated: for every liveVariables request in flight and every reply
\* with variables, a fetched child with variablesReference > 0 whose name is
\* that of a child that was expanded when the refresh was requested is
\* expanded once the reply is handled, a fetched child with
\* variablesReference 0 is collapsed, and for every child left expanded a
\* liveVariables request of the same promise chain is in flight.
C6_ExpansionSurvives ==
    \A r \in VarsPending, res \in Fetched :
        Fits(res) =>
            LET w2 == onVarsReply(World, r, res, 0)
                kids == w2.heap[r.node].children
            IN \A i \in 1..Len(kids) :
                  LET ch == w2.heap[kids[i]]
                      v == res.variables[i]
                  IN /\ \A k \in 1..Len(r.old) :
                           (r.old[k].name = v.name /\ r.old[k].expanded
                              /\ v.variablesReference > 0) => ch.expanded
                     /\ v.variablesReference = 0 => ~ch.expanded
                     /\ ch.expanded =>
                           \E q \in w2.pending :
                               q.kind = "vars" /\ q.node = kids[i] /\ q.job = r.job

\* C6, by the last child of the name: a fetched child is expanded once the
\* reply is handled exactly when its variablesReference is > 0 and the last
\* of the node's children of that name, when the refresh was requested, was
\* expanded; for every child left expanded a liveVariables request of the
\* same promise chain is in flight.
C6_ExpansionOfLastNamed ==
    \A r \in VarsPending, res \in Fetched :
        Fits(res) =>
            LET w2 == onVarsReply(World, r, res, 0)
                kids == w2.heap[r.node].children
            IN \A i \in 1..Len(kids) :
                  LET ch == w2.heap[kids[i]]
                      v == res.variables[i]
                      lastWasExpanded ==
                          \E k \in 1..Len(r.old) :
                              /\ r.old[k].name = v.name /\ r.old[k].expanded
                              /\ \A m \in (k + 1)..Len(r.old) : r.old[m].name # v.name
                  IN /\ ch.expanded <=> (lastWasExpanded /\ v.variablesReference > 0)
                     /\ ch.expanded =>
                           \E q \in w2.pending :
                               q.kind = "vars" /\ q.node = kids[i] /\ q.job = r.job

\* a refresh has rebuilt the children of a watch expression: a child that
\* took over id and expansion from its predecessor is being re-fetched
C6_Witness ==
    \E r \in VarsPending :
        /\ heap[r.node].parent # Root
        /\ heap[r.node].expanded
        /\ heap[r.node].id # r.node

\* the objects an 'update' message of the tree below kids includes, and
\* the (object, changed) pairs the message nodes report for them
RECURSIVE Included(_, _)
Included(h, kids) ==
    UNION { {kids[i]} \cup (IF h[kids[i]].expanded
                            THEN Included(h, h[kids[i]].children) ELSE {})
            : i \in 1..Len(kids) }

RECURSIVE Reported(_, _, _)
Reported(h, kids, nodes) ==
    UNION { {<<kids[i], nodes[i].changed>>}
            \cup (IF nodes[i].children # <<>>
                  THEN Reported(h, h[kids[i]].children, nodes[i].children) ELSE {})
            : i \in 1..Len(nodes) }

\* C7: in every reachable state, the 'update' message built from the tree
\* reports an included node as changed exactly when its previous value is
\* not the empty string and differs from its value; building the message leaves every
\* included node with previous value = value; and a second message built
\* right after it reports no node as changed.
C7_ChangedIffValueDiffers ==
    LET kids == getChildren(heap, Root)
        first == toWebViewNodes(heap, kids, 1, 0, <<>>)
        second == toWebViewNodes(first.heap, kids, 1, 0, <<>>)
    IN /\ \A o \in Included(heap, kids) :
             (<<o, TRUE>> \in Reported(heap, kids, first.nodes))
                <=> (heap[o].prevValue # "" /\ heap[o].prevValue # heap[o].value)
       /\ \A o \in Included(heap, kids) :
             /\ first.heap[o].prevValue = heap[o].value
             /\ first.heap[o].value = heap[o].value
       /\ \A p \in Reported(first.heap, kids, second.nodes) : ~p[2]

\* the messages posted last reported a nested node as changed, and the tree
\* now holds previous value = value for every node it would include
C7_Witness ==
    /\ \E i \in 1..Len(posted.variables) :
          \E k \in 1..Len(posted.variables[i].children) :
              /\ posted.variables[i].children[k].changed
              /\ posted.variables[i].children[k].value = "2"
    /\ \A o \in Included(heap, getChildren(heap, Root)) : heap[o].prevValue = heap[o].value

\* every node of a message that carries children is expanded
RECURSIVE ChildrenOnlyIfExpanded(_)
ChildrenOnlyIfExpanded(nodes) ==
    \A i \in 1..Len(nodes) :
        /\ nodes[i].children # <<>> => nodes[i].expanded
        /\ ChildrenOnlyIfExpanded(nodes[i].children)

\* C9: every step that puts a liveVariables request in flight leaves the
\* node it is for expanded, with variablesReference > 0 and with the session
\* the request is sent to as its session; and every 'update' message posted
\* carries children only under nodes that are expanded.
C9_ChildrenFetchedLazily ==
    /\ [][\A r \in pending' \ pending :
             r.kind = "vars" =>
                 /\ heap'[r.node].expanded
                 /\ heap'[r.node].variablesReference > 0
                 /\ r.sess # NoSession /\ heap'[r.node].session = r.sess]_hostVars
    /\ [](ChildrenOnlyIfExpanded(posted.variables)
          /\ ChildrenOnlyIfExpanded(updateWebview(World).posted.variables))

\* a liveVariables request is in flight while the tree holds a collapsed
\* node that has children, which the message posted last left out
C9_Witness ==
    /\ VarsPending # {}
    /\ \E i \in 1..Len(posted.variables) :
          LET o == getChildren(heap, Root)[i] IN
          /\ Len(posted.variables) = Len(getChildren(heap, Root))
          /\ ~posted.variables[i].expanded
          /\ posted.variables[i].children = <<>>
          /\ ~heap[o].expanded /\ heap[o].children # <<>>


\* two trees agree below their roots: the same number of children in the
\* same order, with the same name, expr and expanded flag, at every depth
RECURSIVE SameShape(_, _, _, _)
SameShape(h1, n1, h2, n2) ==
    /\ Len(h1[n1].children) = Len(h2[n2].children)
    /\ \A i \in 1..Len(h1[n1].children) :
          LET a == h1[n1].children[i]
              b == h2[n2].children[i] IN
          /\ h1[a].name = h2[b].name
          /\ h1[a].expr = h2[b].expr
          /\ h1[a].expanded = h2[b].expanded
          /\ SameShape(h1, a, h2, b)

\* C8: Serialization round-trips the tree shape.  In every state, the tree
\* built by a fresh provider from serialize() of the current tree has the
\* same names, expressions, expanded flags and child order at every depth
\* below the root, while every restored node has an empty value, type and
\* previous value, variablesReference 0, no session and its own generated id;
\* restored in the running process, no restored node has the id of a node of
\* the serialized tree.
C8_SerializeRoundTrip ==
    LET state == serialize(heap, Root)
        restored == Constructed(state).heap
        again == deSerialize(idCounter :> NewNode(idCounter, Undef, <<>>, <<>>, "", "", 0),
                             idCounter + 1, idCounter, state.children, 1).heap
    IN /\ SameShape(heap, Root, restored, Root)
       /\ \A n \in Descendants(restored, Root) \ {Root} :
             /\ restored[n].value = "" /\ restored[n].type = ""
             /\ restored[n].prevValue = "" /\ restored[n].variablesReference = 0
             /\ restored[n].session = NoSession
             /\ restored[n].id = n
       /\ SameShape(heap, Root, again, idCounter)
       /\ {again[n].id : n \in DOMAIN again}
             \cap {heap[n].id : n \in Descendants(heap, Root)} = {}

\* a tree that has what a round trip could lose: a node two levels below a
\* watch expression, a collapsed node that still has children, two children
\* under one node, a name that differs from its expression, and fetched
\* values and references
C8_Witness ==
    LET nodes == Descendants(heap, Root) \ {Root} IN
    /\ \E n \in nodes : heap[n].parent # Root /\ heap[heap[n].parent].parent # Root
    /\ \E n \in nodes : ~heap[n].expanded /\ Len(heap[n].children) > 0
    /\ \E n \in nodes : Len(heap[n].children) > 1
    /\ \E n \in nodes : heap[n].name # heap[n].expr
    /\ \E n \in nodes : heap[n].value # "" /\ heap[n].variablesReference > 0


\* the structure of a tree of message nodes: for every position, the id,
\* name, expr, hasChildren, expanded and depth of the node there
RECURSIVE Structure(_, _)
Structure(nodes, at) ==
    UNION { { [ path |-> at \o <<i>>, id |-> nodes[i].id, name |-> nodes[i].name,
                expr |-> nodes[i].expr, hasChildren |-> nodes[i].hasChildren,
                expanded |-> nodes[i].expanded, depth |-> nodes[i].depth ] }
            \cup Structure(nodes[i].children, at \o <<i>>) : i \in 1..Len(nodes) }

\* the value each position of a tree of message nodes displays
RECURSIVE Values(_, _)
Values(nodes, at) ==
    UNION { { [ path |-> at \o <<i>>, id |-> nodes[i].id,
                value |-> IF nodes[i].value = "" THEN "not available"
                          ELSE nodes[i].value ] }
            \cup Values(nodes[i].children, at \o <<i>>) : i \in 1..Len(nodes) }

\* the value each item of the DOM displays
Displayed(d) ==
    { [path |-> p, id |-> ItemAt(d.items, p).id, value |-> ItemAt(d.items, p).value] :
      p \in ItemPaths(d.items) }

\* the DOM with the text and classes of every .value element blanked
RECURSIVE Unvalued(_)
Unvalued(items) ==
    [i \in 1..Len(items) |->
        [items[i] EXCEPT !.value = "", !.classes = {},
                         !.children.items = Unvalued(@)]]

C11_OneSessionAtATime ==
    /\ [](session # NoSession =>
            \A lw \in LiveWatchConfigs : lw.enabled =>
                debugSessionStarted(World, nextSession, lw) = World)
    /\ [][session' # session =>
            \/ /\ session = NoSession
               /\ session' = nextSession /\ nextSession' = nextSession + 1
            \/ /\ session # NoSession /\ session' = NoSession
               /\ debugSessionTerminated(World, session).session = NoSession
               /\ isStopped' /\ timeout' = Undef
               /\ \E r \in pending' : r.kind = "reset"]_vars

\* a session is active with its timer armed and values fetched, and a later
\* session has been started since
C11_Witness ==
    /\ session # NoSession /\ nextSession > session + 1
    /\ timeout # Undef /\ ~isStopped
    /\ \E n \in Descendants(heap, Root) : heap[n].value # ""


\* the root watch expressions of a tree, and their names apart from one
Roots(h) == {h[Root].children[i] : i \in 1..Len(h[Root].children)}
OtherNames(h, node) == {h[k].name : k \in Roots(h) \ {node}}

\* what the user may enter as a name: the texts of the model, and the name
\* of every watch expression, also with a leading blank
Entered == Names \cup {heap[k].name : k \in Roots(heap)}
               \cup {<<" ">> \o heap[k].name : k \in Roots(heap)}

\* C12: Watch expressions are unique.  In every state reached from a list
\* without duplicates by add-expression, inline-rename, edit, update-format
\* (and remove, move, toggle), no two root watch expressions have the same
\* name, and an add, rename, format change or edit whose (trimmed) result is
\* the name of another watch expression returns with the tree, the persisted
\* state and everything else of the provider unchanged (the edit only
\* closes its input box).
C12_UniqueWatchExpressions ==
    /\ \A i, j \in 1..Len(heap[Root].children) :
          i # j => heap[heap[Root].children[i]].name # heap[heap[Root].children[j]].name
    /\ \A k \in Roots(heap) : heap[k].name = heap[k].expr
    /\ \A e \in Entered :
          Trim(e) \in OtherNames(heap, Undef) => addWatchExpr(World, e) = World
    /\ \A id \in TreeIds : TargetKind(id) = "direct" =>
          LET node == findById(heap, Root, id) IN
          /\ \A nm \in Entered :
                Trim(nm) \in OtherNames(heap, node) =>
                    handleInlineRename(World, id, nm) = World
          /\ \A f \in Formats :
                LET plain == StripFormat(heap[node].expr)
                    expr == IF f = <<>> THEN plain ELSE plain \o <<",">> \o f
                IN expr \in OtherNames(heap, node) =>
                       handleUpdateFormat(World, id, f) = World
    /\ \A r \in pending : r.kind = "input" =>
          \A nm \in Entered :
              Trim(nm) \in OtherNames(heap, r.node) =>
                  onInputBox(World, r, nm) = [World EXCEPT !.pending = @ \ {r}]

\* two watch expressions, the persisted state up to date, an input box open,
\* and a format change that would turn one name into the other
C12_Witness ==
    /\ Len(heap[Root].children) = 2
    /\ saved = serialize(heap, Root)
    /\ \E r \in pending : r.kind = "input" /\ r.node \in Roots(heap)
    /\ \E k \in Roots(heap), f \in Formats :
          f # <<>> /\ StripFormat(heap[k].expr) \o <<",">> \o f \in OtherNames(heap, k)


\* C13: Events that name a session other than the active one are ignored.
\* In every state, for every session s that is not the active one (s may be
\* no session, and no session may be active), debugSessionTerminated,
\* debugStopped and debugContinued for s return the provider as it was
\* (active session, stopped flag, poll timer, tree), and refresh for s, with
\* or without restartTimer, adds no adapter request, timer or save: it only
\* sends the 'update' message (one if the view exists), which leaves the
\* tree as it was apart from the previous values it records.
C13_ForeignSessionIgnored ==
    \A s \in 0..MaxSessions : (s # session \/ session = NoSession) =>
        /\ debugSessionTerminated(World, s) = World
        /\ debugStopped(World, s) = World
        /\ debugContinued(World, s) = World
        /\ \A restartTimer \in BOOLEAN :
              LET w == refresh(World, s, restartTimer) IN
              /\ w.pending = pending /\ w.session = session
              /\ w.timeout = timeout /\ w.isStopped = isStopped
              /\ w.saved = saved /\ w.idCounter = idCounter
              /\ w.fx = [NoFx EXCEPT !.refreshes = 1,
                                     !.posts = IF webviewView THEN 1 ELSE 0]
              /\ webviewView => w.posted.hasSession = (session # NoSession)
              /\ DOMAIN w.heap = DOMAIN heap
              /\ \A n \in DOMAIN heap :
                    [w.heap[n] EXCEPT !.prevValue = ""] = [heap[n] EXCEPT !.prevValue = ""]

\* the second session is active and running with its timer armed, a value
\* fetched and a request in flight, after the first session was active
C13_Witness ==
    /\ session = 2 /\ ~isStopped /\ timeout # Undef
    /\ \E n \in Descendants(heap, Root) : heap[n].value # ""
    /\ \E r \in pending : r.kind \in {"cache", "eval"}


\* every node of the tree has no value, type, previous value or reference
Cleared(h) ==
    \A n \in Descendants(h, Root) :
        /\ h[n].value = "" /\ h[n].type = ""
        /\ h[n].prevValue = "" /\ h[n].variablesReference = 0

\* C14: After debugSessionStarted for a liveWatch-enabled session with no
\* session active, the session is active, every node's value, type, previous
\* value and variablesReference are cleared, and the poll timer is armed with
\* the stopped flag set.  The refresh that timer triggers arms no timer, and
\* while the stopped flag stays set with the session active a timer that is
\* not armed stays so; the stopped flag is lowered only together with the
\* timer being armed for the active session (debugContinued).
C14_StartPollsOnce ==
    /\ [](session = NoSession =>
            \A lw \in LiveWatchConfigs \cup SessionConfigs : lw.enabled =>
                LET w == debugSessionStarted(World, nextSession, lw) IN
                /\ w.session = nextSession /\ w.isStopped
                /\ w.timeout = w.timeoutMs /\ w.fx.timers = 1
                /\ Cleared(w.heap))
    /\ []((session # NoSession /\ isStopped /\ timeout # Undef) =>
            LET w == onTimer(World) IN
            /\ w.timeout = Undef /\ w.fx.timers = 0 /\ w.fx.refreshes = 1
            /\ w.blocked
                  \/ \E r \in w.pending \ pending : r.kind = "cache" /\ r.sess = session)
    /\ [][(session # NoSession /\ session' = session /\ isStopped /\ isStopped'
             /\ timeout = Undef) => timeout' = Undef]_vars
    /\ [][(isStopped /\ ~isStopped') =>
            (session # NoSession /\ session' = session /\ timeout' = timeoutMs)]_vars

\* the started session's one poll is over: the session is active and
\* stopped, nested values were fetched, no timer is armed and no request of
\* the session is in flight
C14_Witness ==
    /\ session # NoSession /\ isStopped /\ timeout = Undef
    /\ \A r \in pending : r.kind \notin {"cache", "eval", "vars"}
    /\ \E n \in Descendants(heap, Root) :
          /\ heap[n].parent # Root /\ heap[n].parent # Undef
          /\ heap[n].value # "" /\ heap[n].session = session


\* C15: On termination of the active session the provider clears the active
\* session, cancels the poll timer, sets the stopped flag, sends one 'update'
\* with hasSession = false, saves the state of the tree and schedules the
\* reset; when that reset runs, every node's value, type and previous value
\* are empty and its variablesReference is 0, while the tree keeps its
\* nodes, their ids, names, expressions, expanded flags and order.
C15_TerminationClears ==
    /\ session # NoSession =>
          LET w == debugSessionTerminated(World, session) IN
          /\ w.session = NoSession /\ w.timeout = Undef /\ w.isStopped
          /\ w.fx = [NoFx EXCEPT !.posts = 1, !.saves = 1]
          /\ ~w.posted.hasSession
          /\ Len(w.posted.variables) = Len(heap[Root].children)
          /\ w.saved = serialize(heap, Root)
          /\ SameShape(heap, Root, w.heap, Root)
          /\ \E r \in w.pending : r.kind = "reset"
    /\ \A r \in pending : r.kind = "reset" =>
          LET w == onResetTimer(World, r) IN
          /\ Cleared(w.heap)
          /\ SameShape(heap, Root, w.heap, Root)
          /\ \A n \in Descendants(heap, Root) :
                w.heap[n].id = heap[n].id /\ w.heap[n].session = NoSession
          /\ w.session = session /\ w.timeout = timeout /\ w.saved = saved
          /\ w.fx = NoFx

\* a session was terminated and the reset has run: no session, no timer, the
\* last message sent still carries a fetched value, the tree with its nested
\* node is cleared and equal to the state saved
C15_Witness ==
    /\ session = NoSession /\ nextSession > 1 /\ timeout = Undef /\ isStopped
    /\ \A r \in pending : r.kind # "reset"
    /\ ~posted.hasSession
    /\ \E i \in 1..Len(posted.variables) : posted.variables[i].value # ""
    /\ Cleared(heap)
    /\ \E n \in Descendants(heap, Root) : heap[n].parent # Root /\ heap[n].parent # Undef
    /\ saved = serialize(heap, Root)


\* C16: The delayed reset scheduled by debugSessionTerminated never erases
\* data of a later session.  In every state where a reset is still to run
\* while a session is active, running the reset leaves every node that was
\* refreshed for the active session with its value, type, variablesReference
\* and session binding.
C16_ResetSparesNewSession ==
    \A r \in pending : (r.kind = "reset" /\ session # NoSession) =>
        LET w == onResetTimer(World, r) IN
        \A n \in Descendants(heap, Root) : heap[n].session = session =>
            /\ w.heap[n].value = heap[n].value
            /\ w.heap[n].type = heap[n].type
            /\ w.heap[n].variablesReference = heap[n].variablesReference
            /\ w.heap[n].session = heap[n].session


\* the children of node n in heap h that are expanded
ExpandedChildren(h, n) ==
    { h[n].children[i] : i \in { k \in 1..Len(h[n].children) : h[h[n].children[k]].expanded } }

\* C17: Expansion of nested children that was restored or held from an
\* earlier session is retained in a new session.  For every watch expression
\* whose first liveEvaluate of the session is in flight and that is expanded
\* with an expanded child: once the evaluation is answered and the
\* liveVariables request it issues is answered with a variable of the child's
\* name and variablesReference > 0, a child of that name is expanded.
C17_NestedExpansionRetained ==
    \A r \in pending : (r.kind = "eval" /\ heap[r.node].type = "" /\ heap[r.node].expanded) =>
        \A res \in RefreshEval :
            LET w == onEvalReply(World, r, res, 0) IN
            \A r2 \in w.pending \ pending : (r2.kind = "vars" /\ r2.node = r.node) =>
                \A vres \in SessionVars :
                    LET w2 == onVarsReply(w, r2, vres, 0) IN
                    \A c \in ExpandedChildren(heap, r.node) :
                        (/\ ~w2.blocked
                         /\ \E i \in 1..Len(vres.variables) :
                               /\ vres.variables[i].name = heap[c].name
                               /\ vres.variables[i].variablesReference > 0)
                        => \E d \in ExpandedChildren(w2.heap, r.node) : w2.heap[d].name = heap[c].name


\* C18: Node ids are unique.  In every reachable state no two nodes of the
\* tree have the same id.
C18_NodeIdsUnique ==
    \A n, m \in Descendants(heap, Root) : n # m => heap[n].id # heap[m].id


\* what the elements show and allow: the items without the message node
\* their handlers captured
RECURSIVE Visible(_)
Visible(items) ==
    [i \in 1..Len(items) |->
        [items[i] EXCEPT !.node = items[i].id, !.children.items = Visible(@)]]

\* C19: An incremental patch is equivalent to a full render.  Whenever no
\* editor is open and the displayed tree is the render of the stored one, an
\* 'update' with the structure of the stored tree leaves the panel showing
\* what a full render of the message shows: values, classes of the values
\* (changed, editable), editability, tooltips and the hint.
C19_PatchEqualsRender ==
    (~Truthy(editingNodeId) /\ dom = render(View).dom) =>
        \A message \in Updates :
            ~isStructureChanged(viewVariables, message.variables) =>
                LET v == onUpdate(View, message)
                    full == render([View EXCEPT !.variables = message.variables,
                                                !.hasSession = message.hasSession])
                IN /\ v.fx.patches = 1
                   /\ Visible(v.dom.items) = Visible(full.dom.items)
                   /\ v.dom.hint = full.dom.hint


\* C20: While an inline editor (rename, value edit or add-expression) is
\* open, an 'update' message replaces the stored variables and the saved
\* webview state and leaves the displayed tree untouched.  In every state
\* where the panel holds an input, every 'update' stores the message's tree
\* and hasSession, hands them to setState once, and changes neither the DOM
\* nor the editor in progress.
C20_UpdateWhileEditing ==
    (Editors(dom) # {} \/ dom.adding) =>
        \A message \in Updates :
            LET v == onUpdate(View, message) IN
            /\ v.variables = message.variables
            /\ v.hasSession = message.hasSession
            /\ v.fx.stored = << [variables |-> message.variables,
                                 hasSession |-> message.hasSession] >>
            /\ v.dom = dom
            /\ v.editingNodeId = editingNodeId
            /\ v.fx.renders = 0 /\ v.fx.patches = 0 /\ v.fx.sent = <<>>

\* a rename or value editor is open on a displayed value that a message of
\* the same structure would change
C20_Witness ==
    /\ Editors(dom) # {}
    /\ \E message \in Updates :
          /\ ~isStructureChanged(viewVariables, message.variables)
          /\ message.variables # viewVariables
    /\ \E message \in Updates : isStructureChanged(viewVariables, message.variables)


\* the inline editor at path finishes: Enter or blur (save) or Escape
finished(v, path, save, input) ==
    IF ItemAt(v.dom.items, path).editing = "name"
    THEN finishEdit(v, path, save, input)
    ELSE finishValueEdit(v, path, save, input)

\* C21: Updates skipped during editing are applied once editing ends.  In
\* every state with an inline editor open, for every way it finishes: if
\* nothing is posted to the host the displayed tree has the structure and
\* values of the stored (latest) message, and if the edit is posted then
\* after the host's next 'update', whatever it is, the displayed tree has
\* the structure and values of that message.
C21_SkippedUpdatesApplied ==
    \A path \in Editors(dom) : \A save \in BOOLEAN, input \in Typed :
        LET v == finished(View, path, save, input) IN
        IF v.fx.sent = <<>>
        THEN Displayed(v.dom) = Values(v.variables, <<>>)
        ELSE \A message \in Updates :
                Displayed(onUpdate(v, message).dom) = Values(message.variables, <<>>)


\* nothing is on its way: no message in either direction and no adapter
\* request in flight
Quiet ==
    /\ toHost = <<>> /\ toView = <<>>
    /\ \A r \in pending : r.kind \notin {"cache", "eval", "vars"}

\* C22: The optimistic toggle is always reconciled with the host.  Whenever
\* every 'toggle' message has been handled by the host, every adapter request
\* has settled and every 'update' has been handled by the view, no displayed
\* node is left loading and each displayed node that has children is shown
\* expanded exactly when the latest 'update' has it expanded.
C22_ToggleReconciled ==
    Quiet =>
        \A path \in ItemPaths(dom.items) :
            LET item == ItemAt(dom.items, path)
                found == findNodeById(viewVariables, 1, item.id)
            IN /\ "loading" \notin item.toggle
               /\ (found # <<>> /\ found[1].hasChildren) =>
                     ("expanded" \in item.toggle <=> found[1].expanded)


\* the handler saved the state and posted one 'update', both of the tree it left
SavedAndPosted(w) ==
    /\ w.fx.saves = 1 /\ w.saved = serialize(w.heap, Root)
    /\ w.fx.posts = (IF w.webviewView THEN 1 ELSE 0)
    /\ w.webviewView => w.posted.hasSession = (w.session # NoSession)

\* C23: Every 'toggle' for an existing node flips that node's expanded flag
\* once, and a state save and an 'update' follow: at once when collapsing,
\* when expanding without a session and when there is nothing to fetch,
\* else when the last request of the fetch has settled, whatever the reply;
\* until then nothing is saved or posted.  A 'toggle' for an id no node has
\* changes nothing.
C23_ToggleFlipsSavesUpdates ==
    /\ \A nodeId \in TreeIds \cup {MaxId + 1} :
          LET node == findById(heap, Root, nodeId)
              w == toggleNode(World, nodeId)
              fetch == w.pending \ pending
          IN IF node = Undef THEN w = World
             ELSE w.blocked \/
                  /\ w.heap[node].expanded = ~heap[node].expanded
                  /\ \A n \in DOMAIN heap \ {node} : w.heap[n].expanded = heap[n].expanded
                  /\ pending \subseteq w.pending
                  /\ IF heap[node].expanded \/ session = NoSession
                           \/ heap[node].variablesReference = 0
                     THEN fetch = {} /\ SavedAndPosted(w)
                     ELSE /\ \E r \in fetch :
                               /\ fetch = {r} /\ r.kind = "vars" /\ r.node = node
                               /\ r.sess = session /\ r.job.then = "toggle"
                          /\ w.fx = NoFx /\ w.saved = saved
    /\ \A r \in pending : (r.kind = "vars" /\ r.job.then = "toggle") =>
          \A res \in RefreshVars \cup RefreshLeafVars :
              LET w == onVarsReply(World, r, res, 0) IN
              w.blocked \/
              IF \E q \in w.pending : q.job.id = r.job.id
              THEN w.fx = NoFx /\ w.saved = saved
              ELSE SavedAndPosted(w)

\* a node of a live session is expanded by a toggle, its fetch is in flight
\* and may be rejected, and another node with nothing to fetch can be toggled
C23_Witness ==
    /\ session # NoSession
    /\ \E r \in pending :
          /\ r.kind = "vars" /\ r.job.then = "toggle"
          /\ heap[r.node].expanded
          /\ \E res \in RefreshVars : res.kind = "reject"
    /\ \E nodeId \in TreeIds :
          LET node == findById(heap, Root, nodeId) IN
          node # Undef /\ ~heap[node].expanded /\ heap[node].variablesReference = 0


\* the requests promise chain j still waits for
Waiting(w, j) == {r \in w.pending : r.job.id = j}

\* how far down the chain a request is: liveCacheRefresh, then liveEvaluate
\* of a watch expression, then liveVariables of a node by its depth
Level(h, r) ==
    IF r.kind = "cache" THEN 0
    ELSE IF r.kind = "eval" THEN 1
    ELSE 1 + Cardinality(Ancestors(h, r.node))

RECURSIVE Power(_, _)
Power(b, e) == IF e = 0 THEN 1 ELSE b * Power(b, e - 1)

\* a measure of what chain j still has to do: a request weighs more than
\* all the requests its reply can issue
RECURSIVE Weight(_, _)
Weight(h, rs) ==
    IF rs = {} THEN 0
    ELSE LET r == CHOOSE q \in rs : TRUE
         IN Power(MaxId + 1, MaxId + 1 - Level(h, r)) + Weight(h, rs \ {r})

\* the reply to request r was handled and left w: the chain has less to do
\* than before; while it waits for a request nothing of its completion has
\* run, and once it waits for none the completion of a refresh (one
\* 'update') has run
Progressed(r, w) ==
    LET j == r.job.id IN
    w.blocked \/
    /\ Weight(w.heap, Waiting(w, j)) < Weight(heap, Waiting(World, j))
    /\ \A k \in JobIds \ {j} : Waiting(w, k) = Waiting(World, k)
    /\ Waiting(w, j) # {} => (w.fx = NoFx /\ w.timeout = timeout /\ w.saved = saved)
    /\ (Waiting(w, j) = {} /\ r.job.then = "refresh") => w.fx.posts = 1

\* C24: A tree refresh always completes.  Every request in flight can be
\* answered, and every answer (a result, an empty result, a rejection)
\* leaves its promise chain with strictly less to wait for, so that with all
\* requests settling the chain ends; it ends (refresh's completion runs) with
\* the reply that leaves no request of the chain in flight and not before,
\* and every reply issues the requests for the watch expressions, or for the
\* expanded children with a variablesReference, it has to wait for.
C24_RefreshCompletes ==
    \A r \in pending :
        /\ r.kind = "cache" =>
              LET w == onCacheReply(World, r, TRUE, 0) IN
              /\ Progressed(r, w)
              /\ \A i \in 1..Len(heap[Root].children) :
                    heap[heap[Root].children[i]].expr # <<>> =>
                        \E q \in Waiting(w, r.job.id) :
                            q.kind = "eval" /\ q.node = heap[Root].children[i]
        /\ r.kind = "eval" =>
              /\ \E res \in SettleEval : ~onEvalReply(World, r, res, 0).blocked
              /\ \A res \in SettleEval :
                    LET w == onEvalReply(World, r, res, 0) IN
                    /\ Progressed(r, w)
                    /\ (/\ ~w.blocked /\ res.kind = "ok" /\ w.heap[r.node].expanded
                        /\ w.heap[r.node].variablesReference > 0
                        /\ w.heap[r.node].session = r.sess)
                       => \E q \in Waiting(w, r.job.id) : q.kind = "vars" /\ q.node = r.node
        /\ r.kind = "vars" =>
              /\ \E res \in SettleVars : ~onVarsReply(World, r, res, 0).blocked
              /\ \A res \in SettleVars :
                    LET w == onVarsReply(World, r, res, 0) IN
                    /\ Progressed(r, w)
                    /\ (~w.blocked /\ res.kind = "ok") =>
                          \A i \in 1..Len(w.heap[r.node].children) :
                              LET c == w.heap[r.node].children[i] IN
                              (w.heap[c].expanded /\ w.heap[c].variablesReference > 0)
                              => \E q \in Waiting(w, r.job.id) : q.kind = "vars" /\ q.node = c

\* a poll's chain waits for the liveVariables of an expanded child below a
\* watch expression while the chain of a toggle is in flight too
C24_Witness ==
    \E r \in pending :
        /\ r.kind = "vars" /\ r.job.then = "refresh"
        /\ heap[r.node].parent # Root
        /\ \E q \in pending : q.job.then = "toggle"


\* the position of element e in a sequence without repetitions
Pos(seq, e) == CHOOSE i \in 1..Len(seq) : seq[i] = e

\* C25: Move-up swaps a watch expression with its predecessor and the first
\* goes to the end; move-down swaps with the successor and the last goes to
\* the front.  For the watch expression at every position: the list after
\* the action holds the same expressions, the moved one and its neighbour
\* have exchanged positions and all others kept theirs, or, at the end of
\* the list, the moved one is at the other end and all others shifted by one.
C25_MoveSwapsOrRotates ==
    LET kids == heap[Root].children
        n == Len(kids)
    IN \A i \in 1..n :
          LET up == handleAction(World, "move-up", heap[kids[i]].id).heap[Root].children
              down == handleAction(World, "move-down", heap[kids[i]].id).heap[Root].children
          IN /\ Len(up) = n /\ Len(down) = n
             /\ {up[k] : k \in 1..n} = {kids[k] : k \in 1..n}
             /\ {down[k] : k \in 1..n} = {kids[k] : k \in 1..n}
             /\ \A k \in 1..n :
                   /\ Pos(up, kids[k]) =
                         IF i > 1 THEN (IF k = i THEN i - 1 ELSE IF k = i - 1 THEN i ELSE k)
                         ELSE (IF k = 1 THEN n ELSE k - 1)
                   /\ Pos(down, kids[k]) =
                         IF i < n THEN (IF k = i THEN i + 1 ELSE IF k = i + 1 THEN i ELSE k)
                         ELSE (IF k = n THEN 1 ELSE k + 1)

\* four watch expressions in an order that is neither the restored one nor
\* a rotation of it
C25_Witness ==
    LET kids == heap[Root].children IN
    /\ Len(kids) = 4
    /\ heap[kids[1]].name = <<"y">> /\ heap[kids[2]].name = <<"x">>
    /\ heap[kids[3]].name = <<"u">> /\ heap[kids[4]].name = <<"z">>


\* C26: An 'update-format' with format f on a watch expression e renames it
\* to e without one trailing format specifier, followed by ',' and f when f
\* is not empty, unless another watch expression has that name; applying the
\* same format twice equals applying it once, and after the empty format
\* the expression has no format specifier.
C26_FormatReplacesSpecifier ==
    \A i \in 1..Len(heap[Root].children) : \A f \in MenuFormats :
        LET node == heap[Root].children[i]
            e == heap[node].expr
            target == StripFormat(e) \o (IF f = <<>> THEN <<>> ELSE <<",">> \o f)
            once == handleUpdateFormat(World, heap[node].id, f)
            twice == handleUpdateFormat([once EXCEPT !.fx = NoFx], heap[node].id, f)
        IN /\ once.heap[node].expr = (IF target \in OtherNames(heap, node) THEN e ELSE target)
           /\ once.heap[node].name = once.heap[node].expr
           /\ twice.heap = once.heap
           /\ (f = <<>> /\ target \notin OtherNames(heap, node))
                 => StripFormat(once.heap[node].expr) = once.heap[node].expr


\* elapsed times of a refresh in ms: the clock set back, none, within the
\* shortest and the default period, their ends, and beyond
ElapsedTimes == {-1, 0, 49, 50, 51, 100, 250, 251, 300}

\* the delay a timer is armed with after `elapsed` ms under period t
Delay(t, elapsed) == IF 0 <= elapsed /\ elapsed <= t THEN t - elapsed ELSE t

\* C27: The delay the poll timer is armed with is always between 0 and
\* timeoutMs: an armed timer has such a delay; a session start arms it with
\* the full period, which is 1000 ms over the sample rate clamped to 1..20;
\* and the reply that completes a refresh after any elapsed time arms it, if
\* at all, with timeoutMs minus the elapsed time when that is within
\* 0..timeoutMs and with the full timeoutMs otherwise.
C27_DelayWithinPeriod ==
    /\ timeout # Undef => (0 <= timeout /\ timeout <= timeoutMs)
    /\ session = NoSession =>
          \A sps \in {Undef, 0, 1, 4, 20, 50} :
              LET w == debugSessionStarted(World, nextSession,
                                           [enabled |-> TRUE, samplesPerSecond |-> sps])
              IN /\ w.timeoutMs = (IF sps = Undef THEN 250 ELSE IF sps = 0 THEN 1000
                                   ELSE IF sps = 50 THEN 50 ELSE 1000 \div sps)
                 /\ w.fx.timers = 1 /\ w.timeout = w.timeoutMs
    /\ \A r \in pending : \A elapsed \in ElapsedTimes :
          /\ r.kind = "cache" =>
                LET w == onCacheReply(World, r, TRUE, elapsed) IN
                w.fx.timers > 0 =>
                    (w.fx.timers = 1 /\ w.timeout = Delay(w.timeoutMs, elapsed))
          /\ r.kind = "eval" =>
                \A res \in EvalResults :
                    LET w == onEvalReply(World, r, res, elapsed) IN
                    w.fx.timers > 0 =>
                        (w.fx.timers = 1 /\ w.timeout = Delay(w.timeoutMs, elapsed))

\* a poll of a running session waits for its last reply, on which the
\* timer is armed again
C27_Witness ==
    /\ session # NoSession /\ ~isStopped /\ timeoutMs = 50
    /\ \E r \in pending :
          /\ r.kind = "eval" /\ r.job.then = "refresh" /\ r.job.restart
          /\ \A q \in pending : q.job.id = r.job.id => q = r
          /\ onEvalReply(World, r, EvalOk("1", "int", 0), 49).timeout = 1

=============================================================================
